---- MODULE Spec2Model ----
(***************************************************************************)
(* OptiRota: shortest-path engines (Dijkstra, A* ), cost-matrix builder.   *)
(*                                                                         *)
(* Numbers.  The program computes with Python floats.  The model uses      *)
(* integers: every edge weight, distance and matrix entry is an integer    *)
(* multiple of one quantum, and float('inf') is the value Inf, which       *)
(* absorbs addition (Add) and is larger than every finite value.  The      *)
(* quantum is 5e-9, so that numpy's absolute tolerance 1e-8 is 2 quanta.   *)
(*                                                                         *)
(* Graphs.  A networkx graph is a record                                   *)
(*   [multi, nodes, node_data, edges]                                      *)
(* multi says whether it is a MultiDiGraph (is_multigraph()), node_data    *)
(* maps each node to its attribute dict, edges is a set of records         *)
(* [u, v, data] with data the edge's attribute dict.  A dict is a function *)
(* whose domain is its set of keys.  In a MultiDiGraph two edges with the  *)
(* same (u, v) are parallel edges; a DiGraph holds at most one per (u, v). *)
(***************************************************************************)
EXTENDS Integers, Sequences, FiniteSets, TLC

\* ---------------------------------------------------------------- bounds
\* node ids of the generated graphs are 0..MaxNode
MaxNode == 1
\* edge weights of the generated graphs are 0..MaxWeight
MaxWeight == 1
\* generated graphs have at most MaxEdges edges
MaxEdges == 2
\* one unit of longitude on the equator is ArcUnit quanta of distance
ArcUnit == 1

\* node lists handed to the cost-matrix builder have at most MaxList entries
MaxList == 3
\* hand-built matrices handed to validate_cost_matrix have at most MaxSide
\* rows and columns
MaxSide == 2

\* solve_vrp is handed at most MaxDeliveries deliveries
MaxDeliveries == 2

\* solve_allocation_problem is handed at most MaxRequests requests
MaxRequests == 2

\* at most MaxCalls calls are made on one allocation manager
MaxCalls == 3

\* at most MaxPuts items are put on one filaPrioridade
MaxPuts == 4

\* ------------------------------------------------------------- constants
\* the absolute tolerance of np.allclose (atol = 1e-8), in quanta
Atol == 2
\* float('inf')
Inf == 1000000
\* Python's None in the predecessor map
None == -1

NodeIds == 0..MaxNode
\* a node id that is in no graph (the tests ask for node 999)
Absent == 999
Weights == 0..MaxWeight

\* ---------------------------------------------------------- dict helpers
EmptyDict == [k \in {} |-> 0]

\* dict.get(k, default)
Get(d, k, default) == IF k \in DOMAIN d THEN d[k] ELSE default

\* float addition, with inf absorbing
Add(a, b) == IF a = Inf \/ b = Inf THEN Inf ELSE a + b

Abs(x) == IF x < 0 THEN -x ELSE x

Min(S) == CHOOSE x \in S : \A y \in S : x <= y

RECURSIVE SubsetsUpTo(_, _)
\* the subsets of S with at most k elements
SubsetsUpTo(S, k) ==
  IF k = 0 THEN {{}}
  ELSE LET smaller == SubsetsUpTo(S, k - 1)
       IN smaller \cup {T \cup {x} : T \in smaller, x \in S}

\* --------------------------------------------------------- graph queries
\* graph.has_node(n)
has_node(G, n) == n \in G.nodes

\* the keys of graph.adj[u]: the successors of u
Adj(G, u) == {e.v : e \in {f \in G.edges : f.u = u}}

\* graph.adj[u][v] of a MultiDiGraph: the attribute dicts of the parallel edges
ParallelEdges(G, u, v) == {e.data : e \in {f \in G.edges : f.u = u /\ f.v = v}}

\* graph.adj[u][v] of a DiGraph: the attribute dict of the one edge u->v
EdgeData(G, u, v) == CHOOSE dd \in ParallelEdges(G, u, v) : TRUE

\* ------------------------------------------------------- filaPrioridade
\* The heap holds (prioridade, item) tuples; heappop removes the smallest
\* tuple, tuples being compared on prioridade first and on item next.  The
\* searches push (d, n) only when d is strictly below the recorded distance
\* of n, so no tuple is ever pushed twice and the heap is a set of tuples.
HeapTop(q) ==
  CHOOSE p \in q : \A r \in q : p[1] < r[1] \/ (p[1] = r[1] /\ p[2] <= r[2])

\* (prioridade, item) < (prioridade, item): tuples compare on their first
\* component, then on the second
TupleLess(a, b) == a[1] < b[1] \/ (a[1] = b[1] /\ a[2] < b[2])

RECURSIVE heapq_siftdown(_, _, _, _)
\* heapq._siftdown: newitem moves from pos toward startpos while its parent
\* is greater.  Positions count from 0, heap[p + 1] is the element at p.
heapq_siftdown(heap, startpos, pos, newitem) ==
  IF pos > startpos /\ TupleLess(newitem, heap[((pos - 1) \div 2) + 1])
    THEN heapq_siftdown([heap EXCEPT ![pos + 1] = heap[((pos - 1) \div 2) + 1]],
                        startpos, (pos - 1) \div 2, newitem)
  ELSE [heap EXCEPT ![pos + 1] = newitem]

RECURSIVE heapq_siftup(_, _, _, _)
\* heapq._siftup: the smaller child is moved up until a leaf is reached,
\* then newitem is sifted down from there
heapq_siftup(heap, startpos, pos, newitem) ==
  LET endpos == Len(heap)
      childpos == 2 * pos + 1
      rightpos == childpos + 1
      smaller == IF rightpos < endpos /\ ~TupleLess(heap[childpos + 1], heap[rightpos + 1])
                   THEN rightpos ELSE childpos
  IN IF childpos < endpos
       THEN heapq_siftup([heap EXCEPT ![pos + 1] = heap[smaller + 1]],
                         startpos, smaller, newitem)
     ELSE heapq_siftdown([heap EXCEPT ![pos + 1] = newitem], startpos, pos, newitem)

\* heapq.heappush
heappush(heap, item) == heapq_siftdown(Append(heap, item), 0, Len(heap), item)

\* heapq.heappop on a non-empty heap: the item returned and the heap left
heappop(heap) ==
  LET lastelt == heap[Len(heap)]
      rest == SubSeq(heap, 1, Len(heap) - 1)
  IN IF rest # <<>>
       THEN [item |-> rest[1], heap |-> heapq_siftup(rest, 0, 0, lastelt)]
     ELSE [item |-> lastelt, heap |-> rest]

\* filaPrioridade.is_empty
fila_is_empty(heap) == heap = <<>>

\* filaPrioridade.put
fila_put(heap, item, prioridade) == heappush(heap, <<prioridade, item>>)

\* mutant: get takes the last element of the list (list.pop)
fila_get_PopsLast(heap) ==
  IF heap = <<>> THEN [raised |-> "IndexError", item |-> None, elements |-> heap]
  ELSE [raised |-> "", item |-> heap[Len(heap)][2],
        elements |-> SubSeq(heap, 1, Len(heap) - 1)]

\* filaPrioridade.get: heappop raises IndexError on an empty list
fila_get(heap) ==
  IF heap = <<>> THEN [raised |-> "IndexError", item |-> None, elements |-> heap]
  ELSE [raised |-> "", item |-> heappop(heap).item[2], elements |-> heappop(heap).heap]

\* --------------------------------------------------------------- results
\* What a path query hands back: the (path, distance) tuple, or an
\* exception (raised).  read_graph records whether the call accessed the
\* graph before returning.
Result(path, distance, read) ==
  [path |-> path, distance |-> distance, raised |-> FALSE, read_graph |-> read]

Raised == [path |-> <<>>, distance |-> Inf, raised |-> TRUE, read_graph |-> TRUE]

Pending == [path |-> <<>>, distance |-> 0, raised |-> FALSE, read_graph |-> FALSE]

\* --------------------------------------------------------------- Pilha
RECURSIVE PushChain(_, _)
\* the stack after pushing end, predecessors[end], ... down to the start
PushChain(predecessors, current) ==
  IF current = None THEN <<>>
  ELSE <<current>> \o PushChain(predecessors, predecessors[current])

RECURSIVE PopAll(_)
\* popping the whole stack: last pushed comes out first
PopAll(stack) ==
  IF stack = <<>> THEN <<>>
  ELSE <<stack[Len(stack)]>> \o PopAll(SubSeq(stack, 1, Len(stack) - 1))

\* mutant: the stack is returned as it was filled, from end back to start
reconstruct_path_Unreversed(predecessors, start, end) ==
  IF predecessors[end] = None /\ start # end THEN <<>>
  ELSE PushChain(predecessors, end)

reconstruct_path(predecessors, start, end) ==
  IF predecessors[end] = None /\ start # end THEN <<>>
  ELSE PopAll(PushChain(predecessors, end))

\* ------------------------------------------------------------- Dijkstra
\* hop cost in a MultiDiGraph: smallest 'length' (else 'weight', else inf)
\* among the parallel edges
\* mutant: the comparison of the scan is reversed, the dearest edge wins
BestWeight_Dearest(G, u, v) ==
  LET ws == {Get(dd, "length", Get(dd, "weight", Inf)) : dd \in ParallelEdges(G, u, v)}
  IN CHOOSE x \in ws : \A y \in ws : x >= y

BestWeight(G, u, v) ==
  Min({Get(dd, "length", Get(dd, "weight", Inf)) : dd \in ParallelEdges(G, u, v)})

\* hop cost in a DiGraph: 'length', else 'weight', else 1.0
SimpleWeight(G, u, v) ==
  LET edge_data == EdgeData(G, u, v)
  IN Get(edge_data, "length", Get(edge_data, "weight", 1))

DijkstraHopCost(G, u, v) ==
  IF G.multi THEN BestWeight(G, u, v) ELSE SimpleWeight(G, u, v)

\* the locals of find_path_dijkstra when the while loop is entered
DijkstraStart(G, start) ==
  [distances    |-> [n \in G.nodes |-> IF n = start THEN 0 ELSE Inf],
   predecessors |-> [n \in G.nodes |-> None],
   visited      |-> {},
   queue        |-> {<<0, start>>},
   halted       |-> FALSE]

\* mutant: no break when the destination is popped
DijkstraIteration_NoBreak(G, end, st) ==
  LET top == HeapTop(st.queue)
      current == top[2]
      rest == st.queue \ {top}
  IN IF current \in st.visited THEN [st EXCEPT !.queue = rest]
     ELSE
       LET visited == st.visited \cup {current}
           new_distance(v) == Add(st.distances[current], DijkstraHopCost(G, current, v))
           improved == {v \in Adj(G, current) \ visited :
                          /\ DijkstraHopCost(G, current, v) # Inf
                          /\ new_distance(v) < st.distances[v]}
       IN [st EXCEPT
            !.queue = rest \cup {<<new_distance(v), v>> : v \in improved},
            !.visited = visited,
            !.distances = [n \in G.nodes |->
                             IF n \in improved THEN new_distance(n) ELSE @[n]],
            !.predecessors = [n \in G.nodes |->
                                IF n \in improved THEN current ELSE @[n]]]

\* one iteration of the while loop of find_path_dijkstra
DijkstraIteration(G, end, st) ==
  LET top == HeapTop(st.queue)
      current == top[2]
      rest == st.queue \ {top}
  IN IF current \in st.visited THEN [st EXCEPT !.queue = rest]
     ELSE IF current = end
       THEN [st EXCEPT !.queue = rest, !.visited = @ \cup {current}, !.halted = TRUE]
     ELSE
       LET visited == st.visited \cup {current}
           new_distance(v) == Add(st.distances[current], DijkstraHopCost(G, current, v))
           improved == {v \in Adj(G, current) \ visited :
                          /\ DijkstraHopCost(G, current, v) # Inf
                          /\ new_distance(v) < st.distances[v]}
       IN [st EXCEPT
            !.queue = rest \cup {<<new_distance(v), v>> : v \in improved},
            !.visited = visited,
            !.distances = [n \in G.nodes |->
                             IF n \in improved THEN new_distance(n) ELSE @[n]],
            !.predecessors = [n \in G.nodes |->
                                IF n \in improved THEN current ELSE @[n]]]

DijkstraRunning(st) == st.queue # {} /\ ~st.halted

RECURSIVE DijkstraLoop(_, _, _)
\* the while loop of find_path_dijkstra, run until it exits
DijkstraLoop(G, end, st) ==
  IF DijkstraRunning(st) THEN DijkstraLoop(G, end, DijkstraIteration(G, end, st))
  ELSE st

\* the code of find_path_dijkstra after the while loop
DijkstraFinish(start, end, st) ==
  IF st.distances[end] = Inf THEN Result(<<>>, Inf, TRUE)
  ELSE Result(reconstruct_path(st.predecessors, start, end), st.distances[end], TRUE)

\* mutant: the membership test comes before the start == end shortcut
DijkstraEarly_NodeTestFirst(G, start, end) ==
  IF ~has_node(G, start) \/ ~has_node(G, end) THEN Result(<<>>, Inf, TRUE)
  ELSE IF start = end THEN Result(<<start>>, 0, TRUE)
  ELSE Pending

\* the early returns of find_path_dijkstra; Pending when the search must run
DijkstraEarly(G, start, end) ==
  IF start = end THEN Result(<<start>>, 0, FALSE)
  ELSE IF ~has_node(G, start) \/ ~has_node(G, end) THEN Result(<<>>, Inf, TRUE)
  ELSE Pending

find_path_dijkstra(G, start, end) ==
  IF DijkstraEarly(G, start, end) # Pending THEN DijkstraEarly(G, start, end)
  ELSE DijkstraFinish(start, end, DijkstraLoop(G, end, DijkstraStart(G, start)))

\* path, distance = find_path_dijkstra(...); return distance
get_shortest_distance(G, start, end) ==
  LET r == find_path_dijkstra(G, start, end)
  IN [distance |-> r.distance, raised |-> r.raised]

\* --------------------------------------------- get_all_shortest_distances
\* `if not edge_data: continue`: graph.get_edge_data(u, v) of a DiGraph is
\* the attribute dict of the edge, falsy when the edge has no attribute; of
\* a MultiDiGraph it is the dict of the parallel edges by key, never empty
\* for a successor
AllSkipsEdge(G, u, v) == ~G.multi /\ EdgeData(G, u, v) = EmptyDict

\* edge_data.get('length', edge_data.get('weight', 1.0)): the dict of a
\* MultiDiGraph is keyed by the integer edge keys and has neither a 'length'
\* nor a 'weight' key
AllEdgeWeight(G, u, v) ==
  IF G.multi THEN 1
  ELSE Get(EdgeData(G, u, v), "length", Get(EdgeData(G, u, v), "weight", 1))

\* the locals of get_all_shortest_distances when the while loop is entered
AllDistancesStart(G, start) ==
  [distances |-> [n \in G.nodes |-> IF n = start THEN 0 ELSE Inf],
   visited   |-> {},
   queue     |-> {<<0, start>>}]

\* one iteration of the while loop of get_all_shortest_distances
AllDistancesIteration(G, st) ==
  LET top == HeapTop(st.queue)
      current == top[2]
      rest == st.queue \ {top}
  IN IF current \in st.visited THEN [st EXCEPT !.queue = rest]
     ELSE
       LET visited == st.visited \cup {current}
           new_distance(v) == Add(st.distances[current], AllEdgeWeight(G, current, v))
           improved == {v \in Adj(G, current) \ visited :
                          /\ ~AllSkipsEdge(G, current, v)
                          /\ new_distance(v) < st.distances[v]}
       IN [st EXCEPT
            !.queue = rest \cup {<<new_distance(v), v>> : v \in improved},
            !.visited = visited,
            !.distances = [n \in G.nodes |->
                             IF n \in improved THEN new_distance(n) ELSE @[n]]]

RECURSIVE AllDistancesLoop(_, _)
\* the while loop of get_all_shortest_distances, run until the queue is empty
AllDistancesLoop(G, st) ==
  IF st.queue # {} THEN AllDistancesLoop(G, AllDistancesIteration(G, st)) ELSE st

get_all_shortest_distances(G, start) ==
  IF ~has_node(G, start) THEN EmptyDict
  ELSE AllDistancesLoop(G, AllDistancesStart(G, start)).distances

\* ------------------------------------------------------------------- A*
\* The model's nodes lie on the equator (latitude 0) and a longitude is an
\* integer number of angle units.  For lat1 = lat2 = 0 the formula gives
\* a = sin(dlon/2)^2 and c = 2*asin(|sin(dlon/2)|) = |dlon|, so the distance
\* is proportional to |lon1 - lon2|: ArcUnit quanta per angle unit.
haversine_distance(lat1, lon1, lat2, lon2) == ArcUnit * Abs(lon2 - lon1)

\* (lat, lon) of a node: the first of the key pairs y/x, lat/lon,
\* latitude/longitude present in its attribute dict, else (0.0, 0.0)
get_node_coordinates(G, node) ==
  LET node_data == G.node_data[node]
  IN IF "y" \in DOMAIN node_data /\ "x" \in DOMAIN node_data
       THEN <<node_data["y"], node_data["x"]>>
     ELSE IF "lat" \in DOMAIN node_data /\ "lon" \in DOMAIN node_data
       THEN <<node_data["lat"], node_data["lon"]>>
     ELSE IF "latitude" \in DOMAIN node_data /\ "longitude" \in DOMAIN node_data
       THEN <<node_data["latitude"], node_data["longitude"]>>
     ELSE <<0, 0>>

\* graph.nodes[n] raises KeyError for a node that is not in the graph, which
\* calculate_heuristic catches and turns into 0.0
calculate_heuristic(G, current, goal) ==
  IF ~has_node(G, current) \/ ~has_node(G, goal) THEN 0
  ELSE LET c1 == get_node_coordinates(G, current)
           c2 == get_node_coordinates(G, goal)
       IN haversine_distance(c1[1], c1[2], c2[1], c2[2])

\* the locals of find_path_a_star when the while loop is entered
AStarStart(G, start, end) ==
  [g_score      |-> [n \in G.nodes |-> IF n = start THEN 0 ELSE Inf],
   f_score      |-> [n \in G.nodes |->
                       IF n = start THEN calculate_heuristic(G, start, end) ELSE Inf],
   predecessors |-> [n \in G.nodes |-> None],
   visited      |-> {},
   queue        |-> {<<calculate_heuristic(G, start, end), start>>},
   halted       |-> FALSE,
   raised       |-> FALSE]

\* The relaxation loop of find_path_a_star treats graph.adj[current][neighbor]
\* as the dict {key: attribute dict} of a MultiDiGraph and calls .get on each
\* of its values.  In a DiGraph graph.adj[current][neighbor] is the attribute
\* dict of the edge itself, its values are numbers, and .get on a number
\* raises AttributeError; an edge without attributes has no values and is
\* skipped with best_weight = inf.
AStarRaises(G, current, visited) ==
  /\ ~G.multi
  /\ \E v \in Adj(G, current) \ visited : EdgeData(G, current, v) # EmptyDict

\* best_weight of find_path_a_star for the hop u->v (when it does not raise)
AStarHopCost(G, u, v) ==
  IF G.multi THEN BestWeight(G, u, v) ELSE Inf

\* one iteration of the while loop of find_path_a_star
AStarIteration(G, end, st) ==
  LET top == HeapTop(st.queue)
      current == top[2]
      rest == st.queue \ {top}
  IN IF current \in st.visited THEN [st EXCEPT !.queue = rest]
     ELSE IF current = end
       THEN [st EXCEPT !.queue = rest, !.visited = @ \cup {current}, !.halted = TRUE]
     ELSE IF AStarRaises(G, current, st.visited \cup {current})
       THEN [st EXCEPT !.queue = rest, !.visited = @ \cup {current}, !.raised = TRUE]
     ELSE
       LET visited == st.visited \cup {current}
           tentative_g_score(v) == Add(st.g_score[current], AStarHopCost(G, current, v))
           improved == {v \in Adj(G, current) \ visited :
                          /\ AStarHopCost(G, current, v) # Inf
                          /\ tentative_g_score(v) < st.g_score[v]}
           f(v) == Add(tentative_g_score(v), calculate_heuristic(G, v, end))
       IN [st EXCEPT
            !.queue = rest \cup {<<f(v), v>> : v \in improved},
            !.visited = visited,
            !.g_score = [n \in G.nodes |->
                           IF n \in improved THEN tentative_g_score(n) ELSE @[n]],
            !.f_score = [n \in G.nodes |-> IF n \in improved THEN f(n) ELSE @[n]],
            !.predecessors = [n \in G.nodes |->
                                IF n \in improved THEN current ELSE @[n]]]

AStarRunning(st) == st.queue # {} /\ ~st.halted /\ ~st.raised

RECURSIVE AStarLoop(_, _, _)
\* the while loop of find_path_a_star, run until it exits or raises
AStarLoop(G, end, st) ==
  IF AStarRunning(st) THEN AStarLoop(G, end, AStarIteration(G, end, st))
  ELSE st

\* the code of find_path_a_star after the while loop
AStarFinish(start, end, st) ==
  IF st.raised THEN Raised
  ELSE IF st.g_score[end] = Inf THEN Result(<<>>, Inf, TRUE)
  ELSE Result(reconstruct_path(st.predecessors, start, end), st.g_score[end], TRUE)

\* the early returns of find_path_a_star; Pending when the search must run
AStarEarly(G, start, end) ==
  IF start = end THEN Result(<<start>>, 0, FALSE)
  ELSE IF ~has_node(G, start) \/ ~has_node(G, end) THEN Result(<<>>, Inf, TRUE)
  ELSE Pending

find_path_a_star(G, start, end) ==
  IF AStarEarly(G, start, end) # Pending THEN AStarEarly(G, start, end)
  ELSE AStarFinish(start, end, AStarLoop(G, end, AStarStart(G, start, end)))

\* path, distance = find_path_a_star(...); return distance
get_shortest_distance_a_star(G, start, end) ==
  LET r == find_path_a_star(G, start, end)
  IN [distance |-> r.distance, raised |-> r.raised]

\* ---------------------------------------------------------- cost matrix
\* A numpy array is a record [shape, cells]: cells maps <<i, j>>, counted
\* from 0, to the entry.  np.array([]) has shape <<0>>; None is modelled as
\* the array without dimensions.
NoneMatrix == [shape |-> <<>>, cells |-> EmptyDict]

EmptyArray == [shape |-> <<0>>, cells |-> EmptyDict]

Range(seq) == {seq[i] : i \in 1..Len(seq)}

\* mutant: every entry of the list is kept
Dedupe_KeepAll(nodes) == nodes

RECURSIVE Dedupe(_)
\* list(dict.fromkeys(nodes)): the distinct ids in order of first occurrence
Dedupe(nodes) ==
  IF nodes = <<>> THEN <<>>
  ELSE LET front == Dedupe(SubSeq(nodes, 1, Len(nodes) - 1))
           x == nodes[Len(nodes)]
       IN IF x \in Range(front) THEN front ELSE Append(front, x)

\* {node: i for i, node in enumerate(unique_nodes)}: a later entry of an
\* equal key overwrites the earlier one
NodeIndex(unique_nodes) ==
  [x \in Range(unique_nodes) |->
     (CHOOSE i \in 1..Len(unique_nodes) :
        /\ unique_nodes[i] = x
        /\ \A k \in (i + 1)..Len(unique_nodes) : unique_nodes[k] # x) - 1]

\* algorithm.lower()
Lower(algorithm) == IF algorithm = "A_STAR" THEN "a_star" ELSE algorithm

\* the body of the two nested loops of compute_cost_matrix for one ordered
\* pair: the entry that cost_matrix[i, j] holds afterwards.  An exception of
\* the search is caught and leaves the inf the matrix was filled with.
FullCell(G, algorithm, use_paths, source, target) ==
  IF use_paths
    THEN LET r == IF algorithm = "a_star" THEN find_path_a_star(G, source, target)
                  ELSE find_path_dijkstra(G, source, target)
         IN IF r.raised THEN Inf
            ELSE IF r.path # <<>> THEN r.distance ELSE Inf
    ELSE LET r == IF algorithm = "a_star"
                    THEN get_shortest_distance_a_star(G, source, target)
                  ELSE get_shortest_distance(G, source, target)
         IN IF r.raised THEN Inf
            ELSE IF r.distance # Inf THEN r.distance ELSE Inf

\* paths[(source, target)] of compute_cost_matrix with use_paths
FullPaths(G, algorithm, unique_nodes) ==
  LET search(st) == IF algorithm = "a_star" THEN find_path_a_star(G, st[1], st[2])
                    ELSE find_path_dijkstra(G, st[1], st[2])
      found == {st \in Range(unique_nodes) \X Range(unique_nodes) :
                  /\ st[1] # st[2]
                  /\ ~search(st).raised
                  /\ search(st).path # <<>>}
  IN [st \in found |-> search(st).path]

\* What a call hands back: a dict, or an exception
Returned(value) == [raised |-> FALSE, value |-> value]

ValueError == [raised |-> TRUE, value |-> EmptyDict]

\* mutant: the loop body has no try/except, an exception of a search leaves
\* compute_cost_matrix
compute_cost_matrix_NoTry(G, nodes, algorithm, use_paths) ==
  IF nodes = <<>>
    THEN Returned([matrix |-> EmptyArray, node_index |-> EmptyDict, paths |-> EmptyDict])
  ELSE IF Lower(algorithm) \notin {"a_star", "dijkstra"} THEN ValueError
  ELSE IF \E s \in Range(nodes) : \E t \in Range(nodes) \ {s} :
            IF Lower(algorithm) = "a_star" THEN find_path_a_star(G, s, t).raised
            ELSE find_path_dijkstra(G, s, t).raised
    THEN ValueError
  ELSE
    LET unique_nodes == Dedupe(nodes)
        n == Len(unique_nodes)
    IN Returned([matrix |-> [shape |-> <<n, n>>,
                             cells |-> [ij \in (0..(n - 1)) \X (0..(n - 1)) |->
                                          IF ij[1] = ij[2] THEN 0
                                          ELSE FullCell(G, Lower(algorithm), use_paths,
                                                        unique_nodes[ij[1] + 1],
                                                        unique_nodes[ij[2] + 1])]],
                 node_index |-> NodeIndex(unique_nodes),
                 nodes |-> unique_nodes])

\* The cells are filled pair by pair in row-major order; no pair reads what
\* another pair wrote, so the matrix after the loops is given cell by cell.
compute_cost_matrix(G, nodes, algorithm, use_paths) ==
  IF nodes = <<>>
    THEN Returned([matrix |-> EmptyArray, node_index |-> EmptyDict, paths |-> EmptyDict])
  ELSE IF Lower(algorithm) \notin {"a_star", "dijkstra"} THEN ValueError
  ELSE
    LET unique_nodes == Dedupe(nodes)
        n == Len(unique_nodes)
        cost_matrix ==
          [shape |-> <<n, n>>,
           cells |-> [ij \in (0..(n - 1)) \X (0..(n - 1)) |->
                        IF ij[1] = ij[2] THEN 0
                        ELSE FullCell(G, Lower(algorithm), use_paths,
                                      unique_nodes[ij[1] + 1], unique_nodes[ij[2] + 1])]]
    IN IF use_paths
         THEN Returned([matrix |-> cost_matrix, node_index |-> NodeIndex(unique_nodes),
                        nodes |-> unique_nodes,
                        paths |-> FullPaths(G, Lower(algorithm), unique_nodes)])
         ELSE Returned([matrix |-> cost_matrix, node_index |-> NodeIndex(unique_nodes),
                        nodes |-> unique_nodes])

\* mutant: only cost_matrix[i, j] with i < j is written, the mirror is not
SymmetricCell_NoMirror(G, algorithm, unique_nodes, i, j) ==
  IF i = j THEN 0
  ELSE IF i > j THEN Inf
  ELSE LET r == IF algorithm = "a_star"
                  THEN get_shortest_distance_a_star(G, unique_nodes[i + 1], unique_nodes[j + 1])
                ELSE get_shortest_distance(G, unique_nodes[i + 1], unique_nodes[j + 1])
       IN IF r.raised THEN Inf ELSE r.distance

\* the entry cost_matrix[i, j] after the loops of
\* compute_cost_matrix_symmetric: the pair (min, max) is searched once, from
\* the node that comes first in the list, and written to both cells
SymmetricCell(G, algorithm, unique_nodes, i, j) ==
  IF i = j THEN 0
  ELSE LET lo == IF i < j THEN i ELSE j
           hi == IF i < j THEN j ELSE i
           r == IF algorithm = "a_star"
                  THEN get_shortest_distance_a_star(G, unique_nodes[lo + 1], unique_nodes[hi + 1])
                ELSE get_shortest_distance(G, unique_nodes[lo + 1], unique_nodes[hi + 1])
       IN IF r.raised THEN Inf
          ELSE IF r.distance # Inf THEN r.distance ELSE Inf

compute_cost_matrix_symmetric(G, nodes, algorithm) ==
  IF nodes = <<>>
    THEN Returned([matrix |-> EmptyArray, node_index |-> EmptyDict, nodes |-> <<>>])
  ELSE IF Lower(algorithm) \notin {"a_star", "dijkstra"} THEN ValueError
  ELSE
    LET unique_nodes == Dedupe(nodes)
        n == Len(unique_nodes)
        cost_matrix ==
          [shape |-> <<n, n>>,
           cells |-> [ij \in (0..(n - 1)) \X (0..(n - 1)) |->
                        SymmetricCell(G, Lower(algorithm), unique_nodes, ij[1], ij[2])]]
    IN Returned([matrix |-> cost_matrix, node_index |-> NodeIndex(unique_nodes),
                 nodes |-> unique_nodes])

\* np.allclose(values, 0.0): every value is finite and within atol of 0
\* (the relative part rtol * |0.0| is 0)
AllCloseZero(values) == \A x \in values : x # Inf /\ Abs(x) <= Atol

\* mutant: the test for negative entries is left out
validate_cost_matrix_NoNegativeTest(cost_matrix, node_index) ==
  IF cost_matrix = NoneMatrix \/ cost_matrix.shape[1] = 0 THEN FALSE
  ELSE LET n == cost_matrix.shape[1]
       IN IF cost_matrix.shape # <<n, n>> THEN FALSE
          ELSE IF ~AllCloseZero({cost_matrix.cells[<<i, i>>] : i \in 0..(n - 1)})
            THEN FALSE
          ELSE IF Cardinality(DOMAIN node_index) # n THEN FALSE
          ELSE TRUE

validate_cost_matrix(cost_matrix, node_index) ==
  IF cost_matrix = NoneMatrix \/ cost_matrix.shape[1] = 0 THEN FALSE
  ELSE LET n == cost_matrix.shape[1]
       IN IF cost_matrix.shape # <<n, n>> THEN FALSE
          ELSE IF ~AllCloseZero({cost_matrix.cells[<<i, i>>] : i \in 0..(n - 1)})
            THEN FALSE
          ELSE IF \E ij \in DOMAIN cost_matrix.cells : cost_matrix.cells[ij] < 0
            THEN FALSE
          ELSE IF Cardinality(DOMAIN node_index) # n THEN FALSE
          ELSE TRUE

\* --------------------------------------------------------------- floats
\* Weights, capacities and loads are Python floats: IEEE 754 doubles, every
\* sum and difference rounded to the nearest double, ties to even.  The
\* values at hand lie within a few ulps of a multiple of 0.1, and a float is
\* written as the integer T * FloatScale + r, standing for T/10 + r*u with
\* u = 2^-56 / 10: every double of at least 0.1 is a whole number of u, as is
\* every multiple of 0.1.  Integer + and - on this form are the exact sum
\* and difference and <, <= the order of the values; FloatRound takes an
\* exact value to the nearest double.
FloatScale == 100000

\* T of a float: the tenths it is next to
FloatTenths(x) == (x + FloatScale \div 2) \div FloatScale

\* r of a float: what it is away from T/10, in units of u
FloatDeviation(x) == x - FloatTenths(x) * FloatScale

\* the value T/10 + r*u is at least t10/10
AtLeastTenths(T, r, t10) == T > t10 \/ (T = t10 /\ r >= 0)

\* the exponent k of the value: 2^k <= T/10 + r*u < 2^(k+1), for values from
\* 0.1 to below 256
FloatExponent(T, r) ==
  IF AtLeastTenths(T, r, 1280) THEN 7
  ELSE IF AtLeastTenths(T, r, 640) THEN 6
  ELSE IF AtLeastTenths(T, r, 320) THEN 5
  ELSE IF AtLeastTenths(T, r, 160) THEN 4
  ELSE IF AtLeastTenths(T, r, 80) THEN 3
  ELSE IF AtLeastTenths(T, r, 40) THEN 2
  ELSE IF AtLeastTenths(T, r, 20) THEN 1
  ELSE IF AtLeastTenths(T, r, 10) THEN 0
  ELSE IF AtLeastTenths(T, r, 5) THEN -1
  ELSE IF T >= 3 THEN -2
  ELSE IF T = 2 THEN -3
  ELSE -4

\* 2^n modulo 10 and modulo 20, for n >= 2
PowerMod10(n) == <<6, 2, 4, 8>>[(n % 4) + 1]

PowerMod20(n) == <<16, 12, 4, 8>>[(n % 4) + 1]

\* the double nearest to the exact value x, ties to the even significand.
\* With exponent k the doubles are ulp = 2^(k-52) = 10 * 2^(k+4) * u apart,
\* and T/10 = T * 2^56 * u lies 2^(k+4) * ((T * 2^(52-k)) mod 10) * u above one.
FloatRound(x) ==
  LET T == FloatTenths(x)
      r == FloatDeviation(x)
      k == FloatExponent(T, r)
      p == 2 ^ (k + 4)
      ulp == 10 * p
      rem == (p * ((T * PowerMod10(52 - k)) % 10) + r) % ulp
      lower == x - rem
      even == ((T * PowerMod20(52 - k) + (r - rem) \div p) % 20) < 10
  IN IF T = 0 \/ rem = 0 THEN x
     ELSE IF 2 * rem < ulp THEN lower
     ELSE IF 2 * rem > ulp THEN lower + ulp
     ELSE IF even THEN lower ELSE lower + ulp

\* the float of a decimal literal with one digit after the point, given in
\* tenths: FloatOf(17) is 1.7
FloatOf(tenths) == FloatRound(tenths * FloatScale)

\* the float of a whole number
Whole(n) == FloatOf(10 * n)

\* a + b and a - b of two floats
FloatAdd(a, b) == FloatRound(a + b)

FloatSub(a, b) == FloatRound(a - b)

\* -------------------------------------------------------------- routing
\* nx.shortest_path_length(graph, u, v, weight='length').  networkx costs an
\* edge at its 'length' attribute, 1 when it has none, and a hop of a
\* MultiDiGraph at its cheapest parallel edge.
NxHop(G, u, v) ==
  LET costs == {Get(e.data, "length", 1) : e \in {f \in G.edges : f.u = u /\ f.v = v}}
  IN IF costs = {} THEN Inf ELSE Min(costs)

RECURSIVE NxRounds(_, _, _)
\* k rounds of relaxation of the distance table D (each round's table is
\* tabulated by @@ before the next round reads it)
NxRounds(G, D, k) ==
  IF k = 0 THEN D
  ELSE NxRounds(G,
         [v \in G.nodes |->
            Min({D[v]} \cup {Add(D[u], NxHop(G, u, v)) : u \in G.nodes})] @@ EmptyDict,
         k - 1)

\* the length nx.shortest_path_length returns; Inf stands for the exceptions
\* NodeNotFound (a node is not in the graph) and NetworkXNoPath
nx_shortest_path_length(G, source, target) ==
  IF ~has_node(G, source) \/ ~has_node(G, target) THEN Inf
  ELSE NxRounds(G, [v \in G.nodes |-> IF v = source THEN 0 ELSE Inf],
                Cardinality(G.nodes))[target]

\* distance / 1000.0: metres to kilometres (edge lengths are whole kilometres)
Km(metres) == IF metres = Inf THEN Inf ELSE metres \div 1000

\* GraphParser.get_closest_node: the node nearest to a location.  Locations
\* and nodes lie on the equator; the location is a longitude.
get_closest_node(G, location) ==
  LET gap(n) == Abs(get_node_coordinates(G, n)[2] - location)
      nearest == {n \in G.nodes : \A m \in G.nodes : gap(n) <= gap(m)}
  IN Min(nearest)

\* list.remove(x): the list without its first element equal to x
ListRemove(list, x) ==
  LET i == Min({k \in 1..Len(list) : list[k] = x})
  IN SubSeq(list, 1, i - 1) \o SubSeq(list, i + 1, Len(list))

RECURSIVE SumWeights(_)
\* sum(d.weight for d in deliveries): float additions from 0, in list order
SumWeights(deliveries) ==
  IF deliveries = <<>> THEN 0
  ELSE FloatAdd(SumWeights(SubSeq(deliveries, 1, Len(deliveries) - 1)),
                deliveries[Len(deliveries)].weight)

\* the distance _find_nearest_delivery computes for one valid delivery, Inf
\* when the delivery is passed over (continue)
NearestDistance(G, current_node, delivery) ==
  IF ~has_node(G, current_node) \/ ~has_node(G, delivery.delivery_node) THEN Inf
  ELSE LET length == nx_shortest_path_length(G, current_node, delivery.delivery_node)
       IN IF length # Inf THEN Km(length)
          ELSE Km(find_path_dijkstra(G, current_node, delivery.delivery_node).distance)

\* mutant: the last of the nearest deliveries is kept (<= in place of <)
find_nearest_delivery_LastOnTies(G, current_node, deliveries, remaining_capacity) ==
  LET fits == {k \in 1..Len(deliveries) : deliveries[k].weight <= remaining_capacity}
      dist == [k \in fits |-> NearestDistance(G, current_node, deliveries[k])] @@ EmptyDict
      best == {k \in fits : dist[k] # Inf /\ \A j \in fits : dist[k] <= dist[j]}
  IN IF best = {} THEN 0 ELSE CHOOSE k \in best : \A j \in best : j <= k

\* NearestNeighborVRP._find_nearest_delivery: the position in deliveries of
\* the delivery returned, 0 for None.  The scan keeps the first delivery of
\* strictly smallest finite distance among those that fit.
find_nearest_delivery(G, current_node, deliveries, remaining_capacity) ==
  LET fits == {k \in 1..Len(deliveries) : deliveries[k].weight <= remaining_capacity}
      dist == [k \in fits |-> NearestDistance(G, current_node, deliveries[k])] @@ EmptyDict
      best == {k \in fits : dist[k] # Inf /\ \A j \in fits : dist[k] <= dist[j]}
  IN IF best = {} THEN 0 ELSE Min(best)

\* the locals of _build_route_nearest_neighbor when its loop is entered
BuildStart(depot_node, deliveries) ==
  [route_deliveries     |-> <<>>,
   current_node         |-> depot_node,
   current_load         |-> 0,
   total_distance       |-> 0,
   available_deliveries |-> deliveries]

\* the delivery the next pass of the while loop selects, 0 for None
BuildNearest(G, vehicle, st) ==
  find_nearest_delivery(G, st.current_node, st.available_deliveries,
                        FloatSub(vehicle.capacity, st.current_load))

\* the while loop of _build_route_nearest_neighbor goes through another pass
\* that does not end in break
BuildRunning(G, vehicle, st) ==
  /\ st.available_deliveries # <<>>
  /\ st.current_load < vehicle.capacity
  /\ BuildNearest(G, vehicle, st) # 0

\* one pass of the while loop: the selected delivery is appended when both
\* legs can be routed, and only removed from the vehicle's candidates when
\* nx.shortest_path raises
BuildIteration(G, vehicle, st) ==
  LET nearest_delivery == st.available_deliveries[BuildNearest(G, vehicle, st)]
      to_pickup == nx_shortest_path_length(G, st.current_node, nearest_delivery.pickup_node)
      to_delivery == nx_shortest_path_length(G, nearest_delivery.pickup_node,
                                             nearest_delivery.delivery_node)
  IN IF ~(FloatAdd(st.current_load, nearest_delivery.weight) <= vehicle.capacity) THEN st
     ELSE IF to_pickup = Inf \/ to_delivery = Inf
       THEN [st EXCEPT !.available_deliveries = ListRemove(@, nearest_delivery)]
     ELSE [route_deliveries     |-> Append(st.route_deliveries, nearest_delivery),
           current_node         |-> nearest_delivery.delivery_node,
           current_load         |-> FloatAdd(st.current_load, nearest_delivery.weight),
           total_distance       |-> st.total_distance + Km(to_pickup) + Km(to_delivery),
           available_deliveries |-> ListRemove(st.available_deliveries, nearest_delivery)]

\* mutant: the way back to the depot is never added
BuildFinish_NoReturnLeg(G, depot_node, vehicle, st) ==
  [vehicle_id     |-> vehicle.id,
   deliveries     |-> st.route_deliveries,
   total_distance |-> st.total_distance,
   is_feasible    |-> Len(st.route_deliveries) > 0]

\* the Route that _build_route_nearest_neighbor returns after its loop
BuildFinish(G, depot_node, vehicle, st) ==
  LET back == nx_shortest_path_length(G, st.current_node, depot_node)
  IN [vehicle_id     |-> vehicle.id,
      deliveries     |-> st.route_deliveries,
      total_distance |-> IF st.route_deliveries # <<>> /\ st.current_node # depot_node
                              /\ back # Inf
                           THEN st.total_distance + Km(back)
                         ELSE st.total_distance,
      is_feasible    |-> Len(st.route_deliveries) > 0]

RECURSIVE RemoveAll(_, _)

\* mutant: the deliveries of a kept route stay among the remaining ones
RemoveAll_KeepAll(remaining, taken) == remaining

\* for delivery in route.deliveries: remaining_deliveries.remove(delivery)
RemoveAll(remaining, taken) ==
  IF taken = <<>> THEN remaining
  ELSE RemoveAll(IF \E k \in 1..Len(remaining) : remaining[k] = taken[1]
                   THEN ListRemove(remaining, taken[1]) ELSE remaining,
                 Tail(taken))

\* mutant: a route that fills its vehicle exactly is marked infeasible too
ValidatedRoute_AtCapacity(route, vehicles) ==
  IF \A k \in 1..Len(vehicles) : vehicles[k].id # route.vehicle_id
    THEN [route EXCEPT !.is_feasible = FALSE]
  ELSE LET vehicle == vehicles[Min({k \in 1..Len(vehicles) :
                                      vehicles[k].id = route.vehicle_id})]
       IN IF SumWeights(route.deliveries) >= vehicle.capacity
            THEN [route EXCEPT !.is_feasible = FALSE]
          ELSE route

\* the body of the loop of VRPManager._validate_routes for one route: the
\* vehicle is the first of the list with the route's vehicle_id
ValidatedRoute(route, vehicles) ==
  IF \A k \in 1..Len(vehicles) : vehicles[k].id # route.vehicle_id
    THEN [route EXCEPT !.is_feasible = FALSE]
  ELSE LET vehicle == vehicles[Min({k \in 1..Len(vehicles) :
                                      vehicles[k].id = route.vehicle_id})]
       IN IF SumWeights(route.deliveries) > vehicle.capacity
            THEN [route EXCEPT !.is_feasible = FALSE]
          ELSE route

\* mutant: a missing depot location is let through
validate_inputs_NoDepotTest(vehicles, deliveries, depot_location) ==
  /\ vehicles # <<>>
  /\ deliveries # <<>>

\* mutant: solve appends the route of every vehicle, also an empty one
SolveAfterRoute_KeepEmpty(solver, k, route) ==
  [solver EXCEPT !.k = @ + 1,
                 !.routes = Append(@, route),
                 !.built_for = Append(@, k),
                 !.served = Append(@, Len(route.deliveries)),
                 !.remaining_deliveries = RemoveAll(@, route.deliveries)]

\* the rest of the body of the loop of NearestNeighborVRP.solve once the
\* route of vehicle k is built: the route is kept when it has deliveries,
\* which leave the remaining ones.  built_for and served record for which
\* vehicle each kept route was built and how many deliveries each processed
\* vehicle was given.
SolveAfterRoute(solver, k, route) ==
  IF route.deliveries # <<>>
    THEN [solver EXCEPT !.k = @ + 1,
                        !.routes = Append(@, route),
                        !.built_for = Append(@, k),
                        !.served = Append(@, Len(route.deliveries)),
                        !.remaining_deliveries = RemoveAll(@, route.deliveries)]
  ELSE [solver EXCEPT !.k = @ + 1, !.served = Append(@, 0)]

\* VRPManager._validate_inputs
validate_inputs(vehicles, deliveries, depot_location) ==
  /\ vehicles # <<>>
  /\ deliveries # <<>>
  /\ depot_location # None

\* the loop of VRPManager._map_locations_to_nodes: every delivery gets its
\* pickup_node and delivery_node
MappedDeliveries(G, deliveries) ==
  [k \in 1..Len(deliveries) |->
     [deliveries[k] EXCEPT
        !.pickup_node = get_closest_node(G, deliveries[k].pickup_location),
        !.delivery_node = get_closest_node(G, deliveries[k].delivery_location)]]

\* ----------------------------------------------------------- allocation
\* float('nan'): what 0.0 * inf and inf - inf give
NaN == 2000000

\* a < b on floats: false whenever one side is nan
Less(a, b) == a # NaN /\ b # NaN /\ a < b

\* get_cost_between_nodes
get_cost_between_nodes(cost_matrix, node_index, source, target) ==
  IF source \notin DOMAIN node_index \/ target \notin DOMAIN node_index THEN Inf
  ELSE cost_matrix.cells[<<node_index[source], node_index[target]>>]

\* cost + (4 - priority) * 0.1 * cost, in tenths of the distance unit
Priced(cost, priority) ==
  IF cost = Inf THEN (IF priority < 4 THEN Inf ELSE NaN)
  ELSE cost * 10 + (4 - priority) * cost

\* VehicleAllocationManager.calculate_allocation_cost: the cost, or the
\* exception the A* query raises
calculate_allocation_cost(mgr, G, vehicle, request) ==
  IF mgr.cost_matrix.present
    THEN [raised |-> FALSE,
          cost |-> Priced(get_cost_between_nodes(mgr.cost_matrix.matrix,
                                                 mgr.cost_matrix.node_index,
                                                 vehicle.current_node, request.node_id),
                          request.priority)]
  ELSE LET r == get_shortest_distance_a_star(G, vehicle.current_node, request.node_id)
       IN IF r.raised THEN [raised |-> TRUE, cost |-> NaN]
          ELSE [raised |-> FALSE, cost |-> Priced(r.distance, request.priority)]

\* requested_vehicle_type = None: no type is asked for
NoType == ""

\* VehicleAllocationManager._has_time_conflict
has_time_conflict(existing_allocation, new_request) == FALSE

\* mutant: a vehicle that the request would fill exactly is not available
is_vehicle_available_NoExactFit(mgr, vehicle, request) ==
  IF /\ request.requested_vehicle_type # NoType
     /\ "type" \in DOMAIN vehicle
     /\ vehicle.type # request.requested_vehicle_type
    THEN FALSE
  ELSE IF vehicle.current_load + request.weight >= vehicle.capacity THEN FALSE
  ELSE \A k \in 1..Len(mgr.allocations) :
         (mgr.allocations[k].vehicle = vehicle.id
            /\ mgr.allocations[k].status \in {"confirmed", "in_progress"})
           => ~has_time_conflict(mgr.allocations[k], request)

\* VehicleAllocationManager._is_vehicle_available.  A Vehicle has no
\* attribute 'type', so the requested type filters nothing.
is_vehicle_available(mgr, vehicle, request) ==
  IF /\ request.requested_vehicle_type # NoType
     /\ "type" \in DOMAIN vehicle
     /\ vehicle.type # request.requested_vehicle_type
    THEN FALSE
  ELSE IF vehicle.current_load + request.weight > vehicle.capacity THEN FALSE
  ELSE \A k \in 1..Len(mgr.allocations) :
         (mgr.allocations[k].vehicle = vehicle.id
            /\ mgr.allocations[k].status \in {"confirmed", "in_progress"})
           => ~has_time_conflict(mgr.allocations[k], request)

\* find_available_vehicles: the positions, in registration order, of the
\* vehicles available for the request
find_available_vehicles(mgr, request) ==
  LET Free(k) == is_vehicle_available(mgr, mgr.vehicles[k], request)
  IN SelectSeq([k \in 1..Len(mgr.vehicles) |-> k], Free)

RECURSIVE MinByKey(_, _)
\* min(items, key=...): the position in items of the first item whose key no
\* later item is less than; keys[k] is the key of items[k]
MinByKey(keys, n) ==
  IF n = 1 THEN 1
  ELSE LET best == MinByKey(keys, n - 1)
       IN IF Less(keys[n], keys[best]) THEN n ELSE best

\* mutant: the weight of the request is not added to the chosen vehicle's load
allocate_vehicle_greedy_LoadForgotten(mgr, G, request) ==
  LET available == find_available_vehicles(mgr, request)
      costs == [k \in 1..Len(available) |->
                  calculate_allocation_cost(mgr, G, mgr.vehicles[available[k]], request)]
                 @@ EmptyDict
  IN IF available = <<>> THEN [raised |-> "", manager |-> mgr, allocation |-> 0]
     ELSE IF \E k \in 1..Len(available) : costs[k].raised
       THEN [raised |-> "AttributeError", manager |-> mgr, allocation |-> 0]
     ELSE LET best == available[MinByKey([k \in 1..Len(available) |-> costs[k].cost],
                                         Len(available))]
              allocation_id == Len(mgr.allocations) + 1
          IN [raised |-> "",
              manager |->
                [mgr EXCEPT
                   !.allocations = Append(@, [id |-> allocation_id,
                                              vehicle |-> mgr.vehicles[best].id,
                                              request |-> request,
                                              status |-> "pending"])],
              allocation |-> allocation_id]

\* VehicleAllocationManager.allocate_vehicle_greedy: the manager afterwards
\* and the allocation made (its id, 0 for None), or the exception of a cost
\* computation
allocate_vehicle_greedy(mgr, G, request) ==
  LET available == find_available_vehicles(mgr, request)
      costs == [k \in 1..Len(available) |->
                  calculate_allocation_cost(mgr, G, mgr.vehicles[available[k]], request)]
                 @@ EmptyDict
  IN IF available = <<>> THEN [raised |-> "", manager |-> mgr, allocation |-> 0]
     ELSE IF \E k \in 1..Len(available) : costs[k].raised
       THEN [raised |-> "AttributeError", manager |-> mgr, allocation |-> 0]
     ELSE LET best == available[MinByKey([k \in 1..Len(available) |-> costs[k].cost],
                                         Len(available))]
              allocation_id == Len(mgr.allocations) + 1
          IN [raised |-> "",
              manager |->
                [mgr EXCEPT
                   !.vehicles[best].current_load = @ + request.weight,
                   !.allocations = Append(@, [id |-> allocation_id,
                                              vehicle |-> mgr.vehicles[best].id,
                                              request |-> request,
                                              status |-> "pending"])],
              allocation |-> allocation_id]

\* (r.client.priority, r.created_at) <= the same key of q
KeyLeq(r, q) ==
  \/ r.priority < q.priority
  \/ r.priority = q.priority /\ r.created_at <= q.created_at

RECURSIVE SortedRequests(_)

\* mutant: the requests are processed in the order of the input list
SortedRequests_InputOrder(requests) == requests

\* sorted(requests, key=lambda r: (r.client.priority, r.created_at)): a
\* stable sort, requests of equal key keep the order of the list
SortedRequests(requests) ==
  IF requests = <<>> THEN <<>>
  ELSE LET n == Len(requests)
           last == requests[n]
           front == SortedRequests(SubSeq(requests, 1, n - 1))
           before == Cardinality({k \in 1..(n - 1) : KeyLeq(front[k], last)})
       IN SubSeq(front, 1, before) \o <<last>> \o SubSeq(front, before + 1, n - 1)

RECURSIVE TotalCost(_, _, _)
\* sum(calculate_allocation_cost(a.vehicle, a.allocation_request) for a in
\* allocations), where allocations are ids of mgr.allocations
TotalCost(mgr, G, allocations) ==
  IF allocations = <<>> THEN 0
  ELSE LET a == mgr.allocations[allocations[Len(allocations)]]
           vehicle == mgr.vehicles[CHOOSE k \in 1..Len(mgr.vehicles) :
                                     mgr.vehicles[k].id = a.vehicle]
           sofar == TotalCost(mgr, G, SubSeq(allocations, 1, Len(allocations) - 1))
           cost == calculate_allocation_cost(mgr, G, vehicle, a.request).cost
       IN IF sofar = NaN \/ cost = NaN THEN NaN ELSE Add(sofar, cost)

\* VehicleAllocationManager.cancel_allocation: what it returns and the
\* manager afterwards.  The weight is taken off the vehicle's load whatever
\* the status of the allocation.
cancel_allocation(mgr, allocation_id) ==
  IF allocation_id \notin 1..Len(mgr.allocations)
    THEN [result |-> FALSE, manager |-> mgr]
  ELSE LET allocation == mgr.allocations[allocation_id]
           k == CHOOSE j \in 1..Len(mgr.vehicles) : mgr.vehicles[j].id = allocation.vehicle
       IN [result |-> TRUE,
           manager |-> [mgr EXCEPT
                          !.vehicles[k].current_load = @ - allocation.request.weight,
                          !.allocations[allocation_id].status = "cancelled"]]

\* valid_statuses of update_allocation_status
valid_statuses == {"pending", "confirmed", "in_progress", "completed", "cancelled"}

\* VehicleAllocationManager.update_allocation_status
update_allocation_status(mgr, allocation_id, new_status) ==
  IF allocation_id \notin 1..Len(mgr.allocations)
    THEN [result |-> FALSE, manager |-> mgr]
  ELSE IF new_status \notin valid_statuses
    THEN [result |-> FALSE, manager |-> mgr]
  ELSE [result |-> TRUE,
        manager |-> [mgr EXCEPT !.allocations[allocation_id].status = new_status]]

\* ------------------------------------------------------- input graphs
\* attribute dicts of the generated edges: no attribute, a 'length', only a
\* 'weight', or both
EdgeDatas ==
  {EmptyDict} \cup {[length |-> w] : w \in Weights}
              \cup {[weight |-> 1], [length |-> MaxWeight, weight |-> 0]}

EdgeCandidates ==
  {e \in [u : NodeIds, v : NodeIds, data : EdgeDatas] : e.u # e.v}

\* a DiGraph keeps one edge per ordered pair
IsSimple(edges) ==
  \A e \in edges : \A f \in edges : (e.u = f.u /\ e.v = f.v) => e = f

\* node attribute dicts over the node set N: no node has coordinates; node n
\* lies on the equator at longitude n; at longitude 2n; or at longitude n
\* with node 1 left without coordinates
NodeDatas(N) ==
  {[n \in N |-> EmptyDict],
   [n \in N |-> [y |-> 0, x |-> n]],
   [n \in N |-> [y |-> 0, x |-> 2 * n]],
   [n \in N |-> IF n = 1 THEN EmptyDict ELSE [y |-> 0, x |-> n]]}

\* the first two of them
PlainNodeDatas(N) ==
  {[n \in N |-> EmptyDict], [n \in N |-> [y |-> 0, x |-> n]]}

\* DiGraphs and MultiDiGraphs over the node set N with one of the edge sets
\* and one of the node attribute assignments
GraphsOver(N, edgeSets, nodeDatas) ==
  {G \in [multi : BOOLEAN, nodes : {N}, node_data : nodeDatas, edges : edgeSets] :
     G.multi \/ IsSimple(G.edges)}

\* every graph on 0..MaxNode with at most MaxEdges of the candidate edges
GeneratedGraphs ==
  GraphsOver(NodeIds, SubsetsUpTo(EdgeCandidates, MaxEdges), PlainNodeDatas(NodeIds))

\* every directed graph on the nodes 0, 1, 2 in which the edges between 0 and
\* 2 have length 3 and the others length 1 (two hops can beat a direct edge)
TriangleEdges ==
  {[u |-> p[1], v |-> p[2],
    data |-> [length |-> IF {p[1], p[2]} = {0, 2} THEN 3 ELSE 1]] :
     p \in {q \in (0..2) \X (0..2) : q[1] # q[2]}}

TriangleGraphs == GraphsOver(0..2, SUBSET TriangleEdges, NodeDatas(0..2))

\* nx.DiGraph() without nodes (test_empty_graph)
EmptyGraph ==
  [multi |-> FALSE, nodes |-> {}, node_data |-> EmptyDict, edges |-> {}]

\* the graph of test_basic_functionality: 0->1:10, 1->2:5, 2->3:8, 0->3:25
BasicEdges ==
  {[u |-> 0, v |-> 1, data |-> [length |-> 10]],
   [u |-> 1, v |-> 2, data |-> [length |-> 5]],
   [u |-> 2, v |-> 3, data |-> [length |-> 8]],
   [u |-> 0, v |-> 3, data |-> [length |-> 25]]}

\* the graph of TestDijkstra.setUp and TestCostMatrix.setUp
SetUpEdges ==
  {[u |-> 0, v |-> 1, data |-> [length |-> 10]],
   [u |-> 0, v |-> 2, data |-> [length |-> 15]],
   [u |-> 1, v |-> 3, data |-> [length |-> 8]],
   [u |-> 2, v |-> 4, data |-> [length |-> 12]],
   [u |-> 3, v |-> 4, data |-> [length |-> 5]],
   [u |-> 1, v |-> 2, data |-> [length |-> 3]]}

ScenarioGraphs ==
  {EmptyGraph} \cup GraphsOver(0..3, {BasicEdges}, NodeDatas(0..3))
               \cup GraphsOver(0..4, {SetUpEdges}, NodeDatas(0..4))

Graphs == GeneratedGraphs \cup TriangleGraphs \cup ScenarioGraphs

\* the node ids a caller asks about: the graph's nodes, the ids 0..MaxNode
\* and an id that is in no graph
QueryIds(G) == G.nodes \cup NodeIds \cup {Absent}

\* ------------------------------------------------------------- state
VARIABLES
  graph,             \* the graph handed to the call
  start, end,        \* the query
  pc,                \* where compare_algorithms_performance stands
  dj,                \* the locals of the running find_path_dijkstra
  astar,             \* the locals of the running find_path_a_star
  dijkstra_result,   \* what find_path_dijkstra returned
  astar_result,      \* what find_path_a_star returned
  mpc,               \* where the caller of the cost-matrix builder stands
  call,              \* the arguments of its call of the builder
  outcome,           \* what the builder returned
  given,             \* the matrix and index the caller has in hand
  valid,             \* what validate_cost_matrix returned
  vpc,               \* where VRPManager.solve_vrp stands
  vcall,             \* the algorithm key and depot location of its call
  vehicles,          \* the fleet handed to solve_vrp
  deliveries,        \* the DeliveryRequest objects handed to solve_vrp
  nn,                \* the locals of NearestNeighborVRP.solve and its route builder
  vresult,           \* what solve_vrp returned or raised
  apc,               \* where solve_allocation_problem stands
  acall,             \* the requests and algorithm of its call
  manager,           \* the VehicleAllocationManager: vehicles, allocations, cost_matrix
  greedy,            \* the locals of _solve_greedy
  solution,          \* what solve_allocation_problem returned or raised
  registered,        \* the vehicles as add_vehicle registered them
  elements,          \* filaPrioridade.elements: the heap list
  fila_result,       \* the last call on the filaPrioridade and what it gave
  fila_count,        \* how many items were put, how many were got
  all_distances      \* what get_all_shortest_distances returned

pathVars == <<start, end, pc, dj, astar, dijkstra_result, astar_result>>

matrixVars == <<mpc, call, outcome, given, valid>>

vrpVars == <<vpc, vcall, vehicles, deliveries, nn, vresult>>

allocVars == <<apc, acall, manager, greedy, solution, registered>>

filaVars == <<elements, fila_result, fila_count>>

\* what the path queries, the cost-matrix callers, the routing, the
\* allocation and the priority queue leave alone
notPathVars == <<matrixVars, vrpVars, allocVars, filaVars, all_distances>>

notMatrixVars == <<pathVars, vrpVars, allocVars, filaVars, all_distances>>

notVrpVars == <<pathVars, matrixVars, allocVars, filaVars, all_distances>>

notAllocVars == <<pathVars, matrixVars, vrpVars, filaVars, all_distances>>

notFilaVars == <<graph, pathVars, matrixVars, vrpVars, allocVars, all_distances>>

\* what get_all_shortest_distances leaves alone, besides graph and start
notAllDistancesVars ==
  <<end, astar, dijkstra_result, astar_result, matrixVars, vrpVars, allocVars, filaVars>>

vars == <<graph, pathVars, matrixVars, vrpVars, allocVars, filaVars, all_distances>>

NoLocals == [queue |-> {}, halted |-> TRUE, raised |-> FALSE]

NoCall == [fn |-> "none"]

NoOutcome == [raised |-> FALSE, value |-> EmptyDict]

NothingGiven == [present |-> FALSE, matrix |-> NoneMatrix, node_index |-> EmptyDict]

\* no cost-matrix caller is running
MatrixOff ==
  /\ mpc = "off"
  /\ call = NoCall
  /\ outcome = NoOutcome
  /\ given = NothingGiven
  /\ valid = FALSE

NoSolver == [k |-> 0]

NoRoutes == [raised |-> "", routes |-> <<>>]

\* no routing problem is being solved
VrpOff ==
  /\ vpc = "off"
  /\ vcall = NoCall
  /\ vehicles = <<>>
  /\ deliveries = <<>>
  /\ nn = NoSolver
  /\ vresult = NoRoutes

NoManager == [vehicles |-> <<>>, allocations |-> <<>>, cost_matrix |-> NothingGiven]

NoGreedy == [i |-> 0]

NoSolution == [raised |-> "", value |-> EmptyDict]

\* get_all_shortest_distances has not returned
NoDistances == [returned |-> FALSE, value |-> EmptyDict]

NoFilaResult == [op |-> "none", raised |-> "", item |-> None]

\* no filaPrioridade is in use
FilaOff ==
  /\ elements = <<>>
  /\ fila_result = NoFilaResult
  /\ fila_count = [put |-> 0, got |-> 0]

\* no allocation problem is being solved
AllocOff ==
  /\ apc = "off"
  /\ acall = NoCall
  /\ manager = NoManager
  /\ registered = <<>>
  /\ greedy = NoGreedy
  /\ solution = NoSolution

\* no path query is running
PathOff ==
  /\ start = Absent
  /\ end = Absent
  /\ pc = "off"
  /\ dj = NoLocals
  /\ astar = NoLocals
  /\ dijkstra_result = Pending
  /\ astar_result = Pending
  /\ all_distances = NoDistances

\* compare_algorithms_performance(graph, start, end) is about to run
Init ==
  /\ graph \in Graphs
  /\ start \in QueryIds(graph)
  /\ end \in QueryIds(graph)
  /\ pc = "dijkstra_call"
  /\ dj = NoLocals
  /\ astar = NoLocals
  /\ dijkstra_result = Pending
  /\ astar_result = Pending
  /\ all_distances = NoDistances
  /\ MatrixOff
  /\ VrpOff
  /\ AllocOff
  /\ FilaOff

\* find_path_dijkstra is entered: the early returns, or the set-up of the loop
DijkstraCall ==
  /\ pc = "dijkstra_call"
  /\ IF DijkstraEarly(graph, start, end) # Pending
       THEN /\ dijkstra_result' = DijkstraEarly(graph, start, end)
            /\ pc' = "astar_call"
            /\ dj' = dj
       ELSE /\ dj' = DijkstraStart(graph, start)
            /\ pc' = "dijkstra_loop"
            /\ dijkstra_result' = dijkstra_result
  /\ UNCHANGED <<graph, start, end, astar, astar_result>>
  /\ UNCHANGED notPathVars

\* one pass through the body of the while loop
DijkstraStep ==
  /\ pc = "dijkstra_loop"
  /\ DijkstraRunning(dj)
  /\ dj' = DijkstraIteration(graph, end, dj)
  /\ UNCHANGED <<graph, start, end, pc, astar, dijkstra_result, astar_result>>
  /\ UNCHANGED notPathVars

\* the loop has ended: find_path_dijkstra returns
DijkstraReturn ==
  /\ pc = "dijkstra_loop"
  /\ ~DijkstraRunning(dj)
  /\ dijkstra_result' = DijkstraFinish(start, end, dj)
  /\ pc' = "astar_call"
  /\ UNCHANGED <<graph, start, end, dj, astar, astar_result>>
  /\ UNCHANGED notPathVars

\* find_path_a_star is entered
AStarCall ==
  /\ pc = "astar_call"
  /\ IF AStarEarly(graph, start, end) # Pending
       THEN /\ astar_result' = AStarEarly(graph, start, end)
            /\ pc' = "done"
            /\ astar' = astar
       ELSE /\ astar' = AStarStart(graph, start, end)
            /\ pc' = "astar_loop"
            /\ astar_result' = astar_result
  /\ UNCHANGED <<graph, start, end, dj, dijkstra_result>>
  /\ UNCHANGED notPathVars

AStarStep ==
  /\ pc = "astar_loop"
  /\ AStarRunning(astar)
  /\ astar' = AStarIteration(graph, end, astar)
  /\ UNCHANGED <<graph, start, end, pc, dj, dijkstra_result, astar_result>>
  /\ UNCHANGED notPathVars

\* the loop has ended or an exception left it: find_path_a_star returns or raises
AStarReturn ==
  /\ pc = "astar_loop"
  /\ ~AStarRunning(astar)
  /\ astar_result' = AStarFinish(start, end, astar)
  /\ pc' = "done"
  /\ UNCHANGED <<graph, start, end, dj, astar, dijkstra_result>>
  /\ UNCHANGED notPathVars

Next ==
  \/ DijkstraCall
  \/ DijkstraStep
  \/ DijkstraReturn
  \/ AStarCall
  \/ AStarStep
  \/ AStarReturn

Spec == Init /\ [][Next]_vars

\* ---------------------------------------------- cost-matrix callers
\* every directed graph on 0, 1, 2 with the triangle's edges, as DiGraph and
\* MultiDiGraph, without coordinates or with node n at longitude n
MatrixTriangles == GraphsOver(0..2, SUBSET TriangleEdges, PlainNodeDatas(0..2))

\* the scenario of the cost-matrix tests: edges (0,1,10), (1,2,5), (0,2,20)
DetourEdges ==
  {[u |-> 0, v |-> 1, data |-> [length |-> 10]],
   [u |-> 1, v |-> 2, data |-> [length |-> 5]],
   [u |-> 0, v |-> 2, data |-> [length |-> 20]]}

MatrixGraphs ==
  MatrixTriangles \cup GraphsOver(0..2, {DetourEdges}, PlainNodeDatas(0..2))

RECURSIVE SeqsUpTo(_, _)
\* the sequences over S of length at most k
SeqsUpTo(S, k) ==
  IF k = 0 THEN {<<>>}
  ELSE LET shorter == SeqsUpTo(S, k - 1)
       IN shorter \cup {Append(q, x) : q \in shorter, x \in S}

\* the node lists a caller passes: up to MaxList of the ids 0, 1, 2, repeated
\* or not, and two lists with an id that is in no graph
NodeLists ==
  SeqsUpTo(0..2, MaxList) \cup {<<0, Absent>>, <<Absent, 2, Absent>>}

Algorithms == {"a_star", "dijkstra", "A_STAR", "bogus"}

\* entries of hand-built matrices
HandValues == {-1, 0, 1, 3, Inf}

\* hand-built arrays: rows x cols with 0 on the diagonal and 1 elsewhere,
\* and the same with one entry overwritten
HandMatrices ==
  LET plain(r, c) ==
        [shape |-> <<r, c>>,
         cells |-> [ij \in (0..(r - 1)) \X (0..(c - 1)) |->
                      IF ij[1] = ij[2] THEN 0 ELSE 1]]
      shapes == (0..MaxSide) \X (0..MaxSide)
  IN {NoneMatrix, EmptyArray}
       \cup {plain(rc[1], rc[2]) : rc \in shapes}
       \cup UNION {{[plain(rc[1], rc[2]) EXCEPT !.cells[ij] = x] :
                      ij \in (0..(rc[1] - 1)) \X (0..(rc[2] - 1)), x \in HandValues} :
                   rc \in shapes}

\* a node_index of k entries
HandIndex(k) == [x \in 0..(k - 1) |-> x]

\* A caller of the cost-matrix module: it either builds a matrix from a graph
\* or has a hand-built array and index
InitMatrix ==
  /\ PathOff
  /\ VrpOff
  /\ AllocOff
  /\ FilaOff
  /\ mpc = "idle"
  /\ call = NoCall
  /\ outcome = NoOutcome
  /\ valid = FALSE
  /\ \/ /\ graph \in MatrixGraphs
        /\ given = NothingGiven
     \/ /\ graph = EmptyGraph
        /\ given \in [present : {TRUE}, matrix : HandMatrices,
                       node_index : {HandIndex(k) : k \in 0..(MaxSide + 1)}]

\* what the caller keeps of a returned dict to validate it
Kept(res) ==
  IF res.raised THEN NothingGiven
  ELSE [present |-> TRUE, matrix |-> res.value.matrix,
        node_index |-> res.value.node_index]

ComputeCostMatrix ==
  /\ mpc = "idle"
  /\ ~given.present
  /\ \E nodes \in NodeLists, algorithm \in Algorithms, use_paths \in BOOLEAN :
       /\ call' = [fn |-> "compute_cost_matrix", nodes |-> nodes,
                   algorithm |-> algorithm, use_paths |-> use_paths]
       /\ outcome' = compute_cost_matrix(graph, nodes, algorithm, use_paths)
       /\ given' = Kept(compute_cost_matrix(graph, nodes, algorithm, use_paths))
  /\ mpc' = "computed"
  /\ UNCHANGED <<graph, valid>>
  /\ UNCHANGED notMatrixVars

ComputeCostMatrixSymmetric ==
  /\ mpc = "idle"
  /\ ~given.present
  /\ \E nodes \in NodeLists, algorithm \in Algorithms :
       /\ call' = [fn |-> "compute_cost_matrix_symmetric", nodes |-> nodes,
                   algorithm |-> algorithm, use_paths |-> FALSE]
       /\ outcome' = compute_cost_matrix_symmetric(graph, nodes, algorithm)
       /\ given' = Kept(compute_cost_matrix_symmetric(graph, nodes, algorithm))
  /\ mpc' = "computed"
  /\ UNCHANGED <<graph, valid>>
  /\ UNCHANGED notMatrixVars

\* validate_cost_matrix on what the caller has in hand
ValidateCostMatrix ==
  /\ mpc \in {"idle", "computed"}
  /\ given.present
  /\ valid' = validate_cost_matrix(given.matrix, given.node_index)
  /\ mpc' = "validated"
  /\ UNCHANGED <<graph, call, outcome, given>>
  /\ UNCHANGED notMatrixVars

NextMatrix ==
  \/ ComputeCostMatrix
  \/ ComputeCostMatrixSymmetric
  \/ ValidateCostMatrix

SpecMatrix == InitMatrix /\ [][NextMatrix]_vars

\* ------------------------------------------------------------ solve_vrp
\* candidate roads between the nodes 0, 1, 2, lengths in metres
VrpEdges ==
  {[u |-> 0, v |-> 1, data |-> [length |-> 1000]],
   [u |-> 0, v |-> 2, data |-> [length |-> 2000]],
   [u |-> 1, v |-> 2, data |-> [length |-> 1000]],
   [u |-> 2, v |-> 0, data |-> [length |-> 1000]]}

\* the graphs GraphParser hands out: MultiDiGraphs whose node n lies on the
\* equator at longitude n
VrpGraphs ==
  {[multi |-> TRUE, nodes |-> 0..2, node_data |-> [n \in 0..2 |-> [y |-> 0, x |-> n]],
    edges |-> es] : es \in SUBSET VrpEdges}

\* Vehicle(id, capacity)
VehicleOf(id, capacity) == [id |-> id, capacity |-> capacity]

\* fleets of one or two vehicles of capacity 50, 60 or 100; the last one
\* carries the same id twice
Fleets ==
  {<<VehicleOf(1, Whole(100))>>, <<VehicleOf(1, Whole(60))>>,
   <<VehicleOf(1, Whole(60)), VehicleOf(2, Whole(100))>>,
   <<VehicleOf(1, Whole(100)), VehicleOf(2, Whole(60))>>,
   <<VehicleOf(1, Whole(50)), VehicleOf(1, Whole(100))>>}

\* what a delivery asks: a weight of 50 or 60, a pickup at longitude 0 or 1,
\* a delivery at longitude 1 or 2
DeliveryOptions ==
  [weight : {Whole(50), Whole(60)}, pickup_location : {0, 1}, delivery_location : {1, 2}]

\* DeliveryRequest(id, pickup_location, delivery_location, weight): ids
\* count from 1, the nodes are None until they are mapped
DeliveryListsOf(options) ==
  {[k \in 1..Len(q) |->
      [id |-> k, weight |-> q[k].weight,
       pickup_location |-> q[k].pickup_location,
       delivery_location |-> q[k].delivery_location,
       pickup_node |-> None, delivery_node |-> None]] :
     q \in SeqsUpTo(options, MaxDeliveries)}

DeliveryLists == DeliveryListsOf(DeliveryOptions)

\* deliveries of 0.6 and 1.1, picked up at the depot, for a vehicle of
\* capacity 1.7
FractionalOptions ==
  [weight : {FloatOf(6), FloatOf(11)}, pickup_location : {0}, delivery_location : {1, 2}]

FractionalLists == DeliveryListsOf(FractionalOptions)

\* solve_vrp is about to be called: with the nearest-neighbor key on a fleet
\* and deliveries of whole weights and the depot at longitude 0, the same
\* with weights and a capacity that are not whole, or with any key and
\* inputs that may be missing
InitVrp ==
  /\ PathOff
  /\ MatrixOff
  /\ AllocOff
  /\ FilaOff
  /\ vpc = "call"
  /\ nn = NoSolver
  /\ vresult = NoRoutes
  /\ \/ /\ graph \in VrpGraphs
        /\ vcall = [algorithm |-> "nearest_neighbor", depot_location |-> 0]
        /\ vehicles \in Fleets
        /\ deliveries \in DeliveryLists \ {<<>>}
     \/ /\ graph \in VrpGraphs
        /\ vcall = [algorithm |-> "nearest_neighbor", depot_location |-> 0]
        /\ vehicles = <<VehicleOf(1, FloatOf(17))>>
        /\ deliveries \in FractionalLists \ {<<>>}
     \/ /\ graph \in {G \in VrpGraphs : G.edges \in {{}, VrpEdges}}
        /\ vcall \in [algorithm : {"nearest_neighbor", "genetic_algorithm", "bogus"},
                      depot_location : {0, None}]
        /\ vehicles \in {<<>>, <<VehicleOf(1, Whole(100))>>}
        /\ deliveries \in {d \in DeliveryLists : Len(d) <= 1}

\* what solve_vrp hands back: the routes, or an exception
RoutesReturned(routes) == [raised |-> "", routes |-> routes]

RoutesRaised(error) == [raised |-> error, routes |-> <<>>]

\* VRPManager.solve_vrp up to the call of the algorithm's solve.  The
\* genetic algorithm's solve takes no depot_node: calling it with one raises
\* TypeError, after the deliveries were mapped.
SolveVrpCall ==
  /\ vpc = "call"
  /\ IF vcall.algorithm \notin {"nearest_neighbor", "genetic_algorithm"}
          \/ ~validate_inputs(vehicles, deliveries, vcall.depot_location)
       THEN /\ vresult' = RoutesRaised("ValueError")
            /\ vpc' = "done"
            /\ UNCHANGED <<deliveries, nn>>
     ELSE IF vcall.algorithm = "genetic_algorithm"
       THEN /\ deliveries' = MappedDeliveries(graph, deliveries)
            /\ vresult' = RoutesRaised("TypeError")
            /\ vpc' = "done"
            /\ nn' = nn
     ELSE /\ deliveries' = MappedDeliveries(graph, deliveries)
          /\ nn' = [k |-> 1,
                    depot_node |-> get_closest_node(graph, vcall.depot_location),
                    routes |-> <<>>,
                    built_for |-> <<>>,
                    served |-> <<>>,
                    remaining_deliveries |-> MappedDeliveries(graph, deliveries),
                    build |-> BuildStart(0, <<>>)]
          /\ vpc' = "solve"
          /\ vresult' = vresult
  /\ UNCHANGED <<graph, vcall, vehicles>>
  /\ UNCHANGED notVrpVars

\* the head of the loop over the vehicles in NearestNeighborVRP.solve
NextVehicle ==
  /\ vpc = "solve"
  /\ IF nn.k > Len(vehicles) \/ nn.remaining_deliveries = <<>>
       THEN /\ vpc' = "validate"
            /\ nn' = nn
     ELSE /\ vpc' = "route"
          /\ nn' = [nn EXCEPT !.build = BuildStart(nn.depot_node, nn.remaining_deliveries)]
  /\ UNCHANGED <<graph, vcall, vehicles, deliveries, vresult>>
  /\ UNCHANGED notVrpVars

\* one pass of the while loop of _build_route_nearest_neighbor
RouteStep ==
  /\ vpc = "route"
  /\ BuildRunning(graph, vehicles[nn.k], nn.build)
  /\ nn' = [nn EXCEPT !.build = BuildIteration(graph, vehicles[nn.k], nn.build)]
  /\ UNCHANGED <<graph, vpc, vcall, vehicles, deliveries, vresult>>
  /\ UNCHANGED notVrpVars

\* the loop has ended: the route is returned to solve, which keeps it when
\* it has deliveries and takes them out of the remaining ones
RouteReturn ==
  /\ vpc = "route"
  /\ ~BuildRunning(graph, vehicles[nn.k], nn.build)
  /\ nn' = SolveAfterRoute(nn, nn.k,
                           BuildFinish(graph, nn.depot_node, vehicles[nn.k], nn.build))
  /\ vpc' = "solve"
  /\ UNCHANGED <<graph, vcall, vehicles, deliveries, vresult>>
  /\ UNCHANGED notVrpVars

\* VRPManager._validate_routes and the return of solve_vrp
ValidateRoutes ==
  /\ vpc = "validate"
  /\ vresult' = RoutesReturned([i \in 1..Len(nn.routes) |->
                                  ValidatedRoute(nn.routes[i], vehicles)])
  /\ vpc' = "done"
  /\ UNCHANGED <<graph, vcall, vehicles, deliveries, nn>>
  /\ UNCHANGED notVrpVars

NextVrp ==
  \/ SolveVrpCall
  \/ NextVehicle
  \/ RouteStep
  \/ RouteReturn
  \/ ValidateRoutes

SpecVrp == InitVrp /\ [][NextVrp]_vars

\* ------------------------------------------- solve_allocation_problem
\* the road networks of the allocation: all candidate roads, or only those
\* that lead to a higher node (none leaves node 2)
AllocGraphs ==
  {G \in VrpGraphs : G.edges \in {VrpEdges, {e \in VrpEdges : e.u < e.v}}}

\* Vehicle(id, capacity, current_load, current_node=...)
VehicleAt(id, capacity, current_load, current_node) ==
  [id |-> id, capacity |-> capacity, current_load |-> current_load,
   current_node |-> current_node]

\* the vehicles registered with add_vehicle, in registration order
Registries ==
  {<<>>,
   <<VehicleAt(1, 100, 0, 0)>>,
   <<VehicleAt(1, 60, 0, 0), VehicleAt(2, 100, 0, 2)>>,
   <<VehicleAt(1, 100, 0, 2), VehicleAt(2, 100, 0, 0)>>,
   <<VehicleAt(1, 100, 50, 0), VehicleAt(2, 60, 0, 0)>>}

\* the cost_matrix argument of the manager: None, or the result of
\* compute_cost_matrix over all nodes or over the nodes 0 and 1
CostMatrices(G) ==
  {NothingGiven} \cup
  {Kept(compute_cost_matrix(G, nodes, "dijkstra", FALSE)) : nodes \in {<<0, 1, 2>>, <<0, 1>>}}

\* what distinguishes one request from another: the priority of its client,
\* the time it was created at, the weight of its delivery
RequestOptions == [priority : {1, 2}, created_at : {1, 2}, weight : {50, 60}]

\* the lists of AllocationRequest a caller passes, in any order.  The id of
\* a request is its rank by creation; the clients sit at node 1.
RequestLists(requested_vehicle_type) ==
  {[k \in 1..Len(q) |->
      [id |-> 1 + Cardinality({j \in 1..Len(q) :
                                 \/ q[j].created_at < q[k].created_at
                                 \/ q[j].created_at = q[k].created_at /\ j < k}),
       priority |-> q[k].priority,
       created_at |-> q[k].created_at,
       weight |-> q[k].weight,
       node_id |-> 1,
       requested_vehicle_type |-> requested_vehicle_type]] :
     q \in SeqsUpTo(RequestOptions, MaxRequests)}

\* solve_allocation_problem(requests, algorithm) is about to be called on a
\* manager with its vehicles registered and no allocation yet
InitAlloc ==
  /\ PathOff
  /\ MatrixOff
  /\ VrpOff
  /\ FilaOff
  /\ graph \in AllocGraphs
  /\ apc = "call"
  /\ greedy = NoGreedy
  /\ solution = NoSolution
  /\ \E registry \in Registries, cost_matrix \in CostMatrices(graph) :
        manager = [vehicles |-> registry, allocations |-> <<>>,
                   cost_matrix |-> cost_matrix]
  /\ registered = manager.vehicles
  /\ \/ \E type \in {NoType, "van"} :
          acall \in [fn : {"solve_allocation_problem"}, algorithm : {"greedy"},
                     requests : RequestLists(type)]
     \/ acall \in [fn : {"solve_allocation_problem"}, algorithm : {"genetic"},
                   requests : {r \in RequestLists(NoType) : Len(r) <= 1}]

SolutionReturned(value) == [raised |-> "", value |-> value]

SolutionRaised(error) == [raised |-> error, value |-> EmptyDict]

\* solve_allocation_problem and the head of _solve_greedy
SolveAllocationCall ==
  /\ apc = "call"
  /\ IF acall.algorithm = "greedy"
       THEN /\ greedy' = [sorted_requests |-> SortedRequests(acall.requests),
                          i |-> 1,
                          allocations |-> <<>>,
                          unassigned_requests |-> <<>>]
            /\ apc' = "loop"
            /\ solution' = solution
     ELSE /\ solution' = SolutionRaised("ValueError")
          /\ apc' = "done"
          /\ greedy' = greedy
  /\ UNCHANGED <<graph, acall, manager, registered>>
  /\ UNCHANGED notAllocVars

\* one pass of the loop of _solve_greedy over the sorted requests
AllocateNext ==
  /\ apc = "loop"
  /\ greedy.i <= Len(greedy.sorted_requests)
  /\ LET request == greedy.sorted_requests[greedy.i]
         r == allocate_vehicle_greedy(manager, graph, request)
     IN IF r.raised # ""
          THEN /\ solution' = SolutionRaised(r.raised)
               /\ apc' = "done"
               /\ UNCHANGED <<manager, greedy>>
        ELSE /\ manager' = r.manager
             /\ greedy' = IF r.allocation # 0
                            THEN [greedy EXCEPT !.i = @ + 1,
                                                !.allocations = Append(@, r.allocation)]
                          ELSE [greedy EXCEPT !.i = @ + 1,
                                              !.unassigned_requests = Append(@, request)]
             /\ UNCHANGED <<apc, solution>>
  /\ UNCHANGED <<graph, acall, registered>>
  /\ UNCHANGED notAllocVars

\* the end of _solve_greedy: the total cost and the AllocationSolution
SolveAllocationReturn ==
  /\ apc = "loop"
  /\ greedy.i > Len(greedy.sorted_requests)
  /\ solution' = SolutionReturned(
                   [allocations |-> [k \in 1..Len(greedy.allocations) |->
                                       manager.allocations[greedy.allocations[k]]],
                    unassigned_requests |-> greedy.unassigned_requests,
                    total_cost |-> TotalCost(manager, graph, greedy.allocations),
                    algorithm_used |-> "greedy"])
  /\ apc' = "done"
  /\ UNCHANGED <<graph, acall, manager, greedy, registered>>
  /\ UNCHANGED notAllocVars

NextAlloc ==
  \/ SolveAllocationCall
  \/ AllocateNext
  \/ SolveAllocationReturn

SpecAlloc == InitAlloc /\ [][NextAlloc]_vars

\* ------------------------------------- calls on the allocation manager
\* the request of the n-th call: a client of priority 1 or 4 at node 1, a
\* delivery of 50 or 60, no vehicle type asked for
CallRequests(n) ==
  {[id |-> n, priority |-> p, created_at |-> n, weight |-> w, node_id |-> 1,
    requested_vehicle_type |-> NoType] : p \in {1, 4}, w \in {50, 60}}

\* the allocation ids and statuses callers pass: ids that may be unknown, a
\* status that is not valid
CallIds == 1..2

CallStatuses == {"confirmed", "completed", "cancelled", "bogus"}

\* a manager with its vehicles registered, no allocation yet and no call made
InitManager ==
  /\ PathOff
  /\ MatrixOff
  /\ VrpOff
  /\ FilaOff
  /\ graph \in AllocGraphs
  /\ apc = "idle"
  /\ acall = [fn |-> "none", n |-> 0]
  /\ greedy = NoGreedy
  /\ solution = NoSolution
  /\ \E registry \in Registries, cost_matrix \in CostMatrices(graph) :
        manager = [vehicles |-> registry, allocations |-> <<>>,
                   cost_matrix |-> cost_matrix]
  /\ registered = manager.vehicles

\* a call of allocate_vehicle_greedy(request)
AllocateVehicleGreedy ==
  /\ apc = "idle"
  /\ acall.n < MaxCalls
  /\ \E request \in CallRequests(acall.n + 1) :
        LET r == allocate_vehicle_greedy(manager, graph, request)
        IN /\ acall' = [fn |-> "allocate_vehicle_greedy", n |-> acall.n + 1,
                        request |-> request]
           /\ manager' = r.manager
           /\ solution' = IF r.raised # "" THEN SolutionRaised(r.raised)
                          ELSE SolutionReturned([allocation |-> r.allocation])
  /\ UNCHANGED <<graph, apc, greedy, registered>>
  /\ UNCHANGED notAllocVars

\* a call of cancel_allocation(allocation_id)
CancelAllocation ==
  /\ apc = "idle"
  /\ acall.n < MaxCalls
  /\ \E allocation_id \in CallIds :
        LET r == cancel_allocation(manager, allocation_id)
        IN /\ acall' = [fn |-> "cancel_allocation", n |-> acall.n + 1,
                        allocation_id |-> allocation_id]
           /\ manager' = r.manager
           /\ solution' = SolutionReturned([result |-> r.result])
  /\ UNCHANGED <<graph, apc, greedy, registered>>
  /\ UNCHANGED notAllocVars

\* a call of update_allocation_status(allocation_id, new_status)
UpdateAllocationStatus ==
  /\ apc = "idle"
  /\ acall.n < MaxCalls
  /\ \E allocation_id \in CallIds, new_status \in CallStatuses :
        LET r == update_allocation_status(manager, allocation_id, new_status)
        IN /\ acall' = [fn |-> "update_allocation_status", n |-> acall.n + 1,
                        allocation_id |-> allocation_id, new_status |-> new_status]
           /\ manager' = r.manager
           /\ solution' = SolutionReturned([result |-> r.result])
  /\ UNCHANGED <<graph, apc, greedy, registered>>
  /\ UNCHANGED notAllocVars

NextManager ==
  \/ AllocateVehicleGreedy
  \/ CancelAllocation
  \/ UpdateAllocationStatus

SpecManager == InitManager /\ [][NextManager]_vars

\* ------------------------------------ callers of get_all_shortest_distances
\* get_all_shortest_distances(graph, start) is about to run
InitAllDistances ==
  /\ graph \in Graphs
  /\ start \in QueryIds(graph)
  /\ end = Absent
  /\ pc = "all_call"
  /\ dj = NoLocals
  /\ astar = NoLocals
  /\ dijkstra_result = Pending
  /\ astar_result = Pending
  /\ all_distances = NoDistances
  /\ MatrixOff
  /\ VrpOff
  /\ AllocOff
  /\ FilaOff

\* get_all_shortest_distances is entered: {} for an unknown start, or the
\* set-up of the loop
AllDistancesCall ==
  /\ pc = "all_call"
  /\ IF ~has_node(graph, start)
       THEN /\ all_distances' = [returned |-> TRUE, value |-> EmptyDict]
            /\ pc' = "done"
            /\ dj' = dj
       ELSE /\ dj' = AllDistancesStart(graph, start)
            /\ pc' = "all_loop"
            /\ all_distances' = all_distances
  /\ UNCHANGED <<graph, start>>
  /\ UNCHANGED notAllDistancesVars

\* one pass through the body of the while loop
AllDistancesStep ==
  /\ pc = "all_loop"
  /\ dj.queue # {}
  /\ dj' = AllDistancesIteration(graph, dj)
  /\ UNCHANGED <<graph, start, pc, all_distances>>
  /\ UNCHANGED notAllDistancesVars

\* the queue is empty: return distances
AllDistancesReturn ==
  /\ pc = "all_loop"
  /\ dj.queue = {}
  /\ all_distances' = [returned |-> TRUE, value |-> dj.distances]
  /\ pc' = "done"
  /\ UNCHANGED <<graph, start, dj>>
  /\ UNCHANGED notAllDistancesVars

NextAllDistances ==
  \/ AllDistancesCall
  \/ AllDistancesStep
  \/ AllDistancesReturn

SpecAllDistances == InitAllDistances /\ [][NextAllDistances]_vars

\* ------------------------------------------- calls on a filaPrioridade
\* the items and priorities callers put
FilaItems == 0..1

FilaPriorities == 1..3

\* a new filaPrioridade
InitFila ==
  /\ PathOff
  /\ MatrixOff
  /\ VrpOff
  /\ AllocOff
  /\ graph = EmptyGraph
  /\ elements = <<>>
  /\ fila_result = NoFilaResult
  /\ fila_count = [put |-> 0, got |-> 0]

\* a call of put(item, prioridade)
FilaPut ==
  /\ fila_count.put < MaxPuts
  /\ \E item \in FilaItems, prioridade \in FilaPriorities :
        /\ elements' = fila_put(elements, item, prioridade)
        /\ fila_result' = [op |-> "put", raised |-> "", item |-> item]
  /\ fila_count' = [fila_count EXCEPT !.put = @ + 1]
  /\ UNCHANGED notFilaVars

\* a call of get()
FilaGet ==
  /\ elements' = fila_get(elements).elements
  /\ fila_result' = [op |-> "get", raised |-> fila_get(elements).raised,
                     item |-> fila_get(elements).item]
  /\ fila_count' = IF fila_get(elements).raised = ""
                     THEN [fila_count EXCEPT !.got = @ + 1]
                   ELSE fila_count
  /\ UNCHANGED notFilaVars

NextFila ==
  \/ FilaPut
  \/ FilaGet

SpecFila == InitFila /\ [][NextFila]_vars

\* ------------------------------------------- reference notions for claims
\* cost of one edge as the documentation states it: 'length', else 'weight';
\* an edge with neither is unusable in a MultiDiGraph and costs 1 in a DiGraph
RefEdgeCost(G, e) ==
  IF "length" \in DOMAIN e.data THEN e.data["length"]
  ELSE IF "weight" \in DOMAIN e.data THEN e.data["weight"]
  ELSE IF G.multi THEN Inf ELSE 1

\* cost of the hop u->v: the cheapest of its parallel edges, Inf without edge
RefHopCost(G, u, v) ==
  LET costs == {RefEdgeCost(G, e) : e \in {f \in G.edges : f.u = u /\ f.v = v}}
  IN IF costs = {} THEN Inf ELSE Min(costs)

RECURSIVE RefRounds(_, _, _)
\* k rounds of Bellman-Ford relaxation of the distance table D
RefRounds(G, D, k) ==
  IF k = 0 THEN D
  ELSE RefRounds(G,
         [v \in G.nodes |->
            Min({D[v]} \cup {Add(D[u], RefHopCost(G, u, v)) : u \in G.nodes})],
         k - 1)

\* the least cost of a directed path from s to t, Inf when there is none
TrueDistance(G, s, t) ==
  IF s = t THEN 0
  ELSE IF s \notin G.nodes \/ t \notin G.nodes THEN Inf
  ELSE RefRounds(G, [v \in G.nodes |-> IF v = s THEN 0 ELSE Inf],
                 Cardinality(G.nodes))[t]

RECURSIVE RefReach(_, _, _)
\* the nodes reached from the set R over at most k more edges
RefReach(G, R, k) ==
  IF k = 0 THEN R
  ELSE RefReach(G, R \cup {e.v : e \in {f \in G.edges : f.u \in R}}, k - 1)

\* a directed path of edges leads from s to t
Connected(G, s, t) ==
  /\ s \in G.nodes
  /\ t \in G.nodes
  /\ t \in RefReach(G, {s}, Cardinality(G.nodes))

RECURSIVE PathCost(_, _)
\* the hop costs of a path, summed from its first hop on
PathCost(G, path) ==
  IF Len(path) < 2 THEN 0
  ELSE Add(PathCost(G, SubSeq(path, 1, Len(path) - 1)),
           RefHopCost(G, path[Len(path) - 1], path[Len(path)]))

\* path is a simple directed path of G from s to t that costs distance
IsRouteOf(G, s, t, path, distance) ==
  /\ path[1] = s
  /\ path[Len(path)] = t
  /\ \A i \in 1..Len(path) : \A j \in 1..Len(path) : path[i] = path[j] => i = j
  /\ \A i \in 1..(Len(path) - 1) :
        \E e \in G.edges : e.u = path[i] /\ e.v = path[i + 1]
  /\ PathCost(G, path) = distance

DijkstraReturned == pc \in {"astar_call", "astar_loop", "done"}

AStarReturned == pc = "done"

SameAnswer(r, path, distance) ==
  ~r.raised /\ r.path = path /\ r.distance = distance

\* ---------------------------------------------------------------- claims
\* C1: for every graph G, also an empty one or one without n, and every node
\* id n, find_path_dijkstra(G, n, n) and find_path_a_star(G, n, n) return
\* ([n], 0) and have not read the graph.
C1_SameNode ==
  start = end =>
    /\ DijkstraReturned => dijkstra_result = Result(<<start>>, 0, FALSE)
    /\ AStarReturned => astar_result = Result(<<start>>, 0, FALSE)

C1_Witness ==
  AStarReturned /\ start = end /\ ~has_node(graph, start) /\ graph.edges # {}

\* C2: for start # end, when start or end is no node of G or no directed path
\* leads from start to end, both engines return ([], inf), both distance-only
\* queries return inf, and none of them raises.
C2_NoPath ==
  (AStarReturned /\ start # end /\ ~Connected(graph, start, end)) =>
    /\ SameAnswer(dijkstra_result, <<>>, Inf)
    /\ SameAnswer(astar_result, <<>>, Inf)
    /\ get_shortest_distance(graph, start, end) = [distance |-> Inf, raised |-> FALSE]
    /\ get_shortest_distance_a_star(graph, start, end)
         = [distance |-> Inf, raised |-> FALSE]

\* C3: for s # t both nodes of G (weights non-negative), the distance that
\* find_path_dijkstra returns is the least cost of a directed path from s to
\* t, each hop costed at its cheapest parallel edge; on 0->1:10, 1->2:5,
\* 2->3:8, 0->3:25 the query (0, 3) gives path [0,1,2,3] and distance 23.
C3_DijkstraOptimal ==
  (DijkstraReturned /\ start # end /\ has_node(graph, start) /\ has_node(graph, end)) =>
    /\ ~dijkstra_result.raised
    /\ dijkstra_result.distance = TrueDistance(graph, start, end)
    /\ (graph.edges = BasicEdges /\ start = 0 /\ end = 3) =>
          SameAnswer(dijkstra_result, <<0, 1, 2, 3>>, 23)

C3_Witness ==
  /\ DijkstraReturned
  /\ graph.edges = BasicEdges /\ start = 0 /\ end = 3
  /\ dijkstra_result.distance = 23

\* C4: a non-empty path returned for start # end begins at start, ends at
\* end, repeats no node, follows edges of the graph, and its hop costs sum to
\* the returned distance.
C4_PathWellFormed ==
  start # end =>
    /\ (DijkstraReturned /\ dijkstra_result.path # <<>>) =>
          IsRouteOf(graph, start, end, dijkstra_result.path, dijkstra_result.distance)
    /\ (AStarReturned /\ ~astar_result.raised /\ astar_result.path # <<>>) =>
          IsRouteOf(graph, start, end, astar_result.path, astar_result.distance)

C4_Witness ==
  /\ AStarReturned
  /\ graph.multi
  /\ Len(dijkstra_result.path) = 3
  /\ Len(astar_result.path) = 3
  /\ dijkstra_result.distance < RefHopCost(graph, start, end)

\* C5: for every graph with non-negative weights and every s, t, both
\* engines return the same distance, the true shortest distance.
C5_SameDistance ==
  AStarReturned =>
    /\ ~astar_result.raised
    /\ astar_result.distance = dijkstra_result.distance
    /\ dijkstra_result.distance = TrueDistance(graph, start, end)

\* C6: when no node carries coordinates, find_path_a_star returns the same
\* path and distance as find_path_dijkstra, on DiGraphs and MultiDiGraphs; on
\* 0->1:10, 1->2:5, 2->3:8, 0->3:25 it returns ([0,1,2,3], 23) for (0, 3).
C6_NoCoordinates ==
  (AStarReturned /\ \A n \in graph.nodes : graph.node_data[n] = EmptyDict) =>
    /\ SameAnswer(astar_result, dijkstra_result.path, dijkstra_result.distance)
    /\ (graph.edges = BasicEdges /\ start = 0 /\ end = 3) =>
          SameAnswer(astar_result, <<0, 1, 2, 3>>, 23)

\* a cost-matrix builder has returned a matrix for a non-empty node list
Built(fns) ==
  /\ call.fn \in fns
  /\ ~outcome.raised
  /\ call.nodes # <<>>

\* the entry of the returned matrix for the ordered pair of nodes (s, t)
Entry(s, t) ==
  outcome.value.matrix.cells[<<outcome.value.node_index[s],
                               outcome.value.node_index[t]>>]

IsEmptyMatrix(m) == m = NoneMatrix \/ \E k \in 1..Len(m.shape) : m.shape[k] = 0

IsSquare(m) == Len(m.shape) = 2 /\ m.shape[1] = m.shape[2]

DiagonalOf(m) == {m.cells[ij] : ij \in {kl \in DOMAIN m.cells : kl[1] = kl[2]}}

HasNegative(m) == \E ij \in DOMAIN m.cells : m.cells[ij] < 0

\* what C8 says of the matrix compute_cost_matrix returns for a non-empty list
C8_Computed ==
  Built({"compute_cost_matrix"}) =>
    /\ DiagonalOf(outcome.value.matrix) = {0}
    /\ ~HasNegative(outcome.value.matrix)
    /\ mpc = "validated" => valid

\* C8 as stated: the matrix compute_cost_matrix returns for a non-empty node
\* list has a diagonal of exactly 0 and no negative entry and
\* validate_cost_matrix accepts it; validate_cost_matrix rejects every matrix
\* that is empty, not square, of a side other than the size of node_index,
\* with a non-zero diagonal entry, or with a negative entry.
C8_Original ==
  /\ C8_Computed
  /\ (/\ mpc = "validated"
      /\ \/ IsEmptyMatrix(given.matrix)
         \/ ~IsSquare(given.matrix)
         \/ given.matrix.shape[1] # Cardinality(DOMAIN given.node_index)
         \/ \E x \in DiagonalOf(given.matrix) : x # 0
         \/ HasNegative(given.matrix)) => ~valid

\* C8: the matrix compute_cost_matrix returns for a non-empty node list has
\* a diagonal of exactly 0 and no negative entry and validate_cost_matrix
\* accepts it; validate_cost_matrix rejects every matrix that is empty, not
\* square, of a side other than the size of node_index, with a diagonal entry
\* farther than 1e-8 from 0, or with a negative entry.
C8_Amended ==
  /\ C8_Computed
  /\ (/\ mpc = "validated"
      /\ \/ IsEmptyMatrix(given.matrix)
         \/ ~IsSquare(given.matrix)
         \/ given.matrix.shape[1] # Cardinality(DOMAIN given.node_index)
         \/ \E x \in DiagonalOf(given.matrix) : Abs(x) > Atol
         \/ HasNegative(given.matrix)) => ~valid

C8_Witness ==
  /\ mpc = "validated"
  /\ ~valid
  /\ given.matrix.shape = <<2, 2>>
  /\ Cardinality(DOMAIN given.node_index) = 2
  /\ given.matrix.cells[<<1, 1>>] = 3
  /\ ~HasNegative(given.matrix)

\* position of the first occurrence of x in the list
FirstOccurrence(nodes, x) == Min({i \in 1..Len(nodes) : nodes[i] = x})

\* C9: for a node list with duplicates, compute_cost_matrix and
\* compute_cost_matrix_symmetric build a matrix whose side is the number of
\* distinct ids, and node_index maps the distinct ids one-to-one onto
\* 0..n-1 in the order of their first occurrences.
C9_Deduplicated ==
  Built({"compute_cost_matrix", "compute_cost_matrix_symmetric"}) =>
    LET distinct == Range(call.nodes)
        n == Cardinality(distinct)
        node_index == outcome.value.node_index
    IN /\ outcome.value.matrix.shape = <<n, n>>
       /\ DOMAIN outcome.value.matrix.cells = (0..(n - 1)) \X (0..(n - 1))
       /\ DOMAIN node_index = distinct
       /\ {node_index[x] : x \in distinct} = 0..(n - 1)
       /\ \A x \in distinct : \A y \in distinct :
            node_index[x] < node_index[y]
              <=> FirstOccurrence(call.nodes, x) < FirstOccurrence(call.nodes, y)

C9_Witness ==
  /\ Built({"compute_cost_matrix_symmetric"})
  /\ Len(call.nodes) = 3
  /\ call.nodes[1] = call.nodes[3]
  /\ call.nodes[1] # call.nodes[2]
  /\ outcome.value.matrix.shape = <<2, 2>>

\* C10: for every graph, also one whose s->t and t->s distances differ or
\* where only one direction is reachable, and every node list, the matrix of
\* compute_cost_matrix_symmetric has M[i][j] = M[j][i] for all i, j and a
\* zero diagonal.
C10_Symmetric ==
  (call.fn = "compute_cost_matrix_symmetric" /\ ~outcome.raised) =>
    LET M == outcome.value.matrix.cells
        n == outcome.value.matrix.shape[1]
    IN \A i \in 0..(n - 1) : \A j \in 0..(n - 1) :
         /\ M[<<i, j>>] = M[<<j, i>>]
         /\ M[<<i, i>>] = 0

C10_Witness ==
  /\ Built({"compute_cost_matrix_symmetric"})
  /\ call.algorithm = "dijkstra"
  /\ \E s \in Range(call.nodes) : \E t \in Range(call.nodes) :
       /\ Entry(s, t) # Inf
       /\ Connected(graph, s, t)
       /\ ~Connected(graph, t, s)

\* a cost-matrix builder was called with a supported algorithm and a
\* non-empty node list
Asked(fns) ==
  /\ call.fn \in fns
  /\ call.nodes # <<>>
  /\ Lower(call.algorithm) \in {"a_star", "dijkstra"}

\* the engine query the builder makes for the ordered pair (s, t)
EngineQuery(s, t) ==
  IF Lower(call.algorithm) = "a_star" THEN find_path_a_star(graph, s, t)
  ELSE find_path_dijkstra(graph, s, t)

\* the pair the builder queries for the cell of (s, t): the pair itself in
\* compute_cost_matrix, the pair in list order in the symmetric builder
QueriedPair(s, t) ==
  IF call.fn = "compute_cost_matrix_symmetric"
       /\ FirstOccurrence(call.nodes, t) < FirstOccurrence(call.nodes, s)
    THEN <<t, s>>
  ELSE <<s, t>>

\* C11: when the engine query for a pair raises during compute_cost_matrix
\* or compute_cost_matrix_symmetric, the builder still returns, the cell of
\* that pair is inf, and every other cell holds what its own query gave.
C11_PairFailureContained ==
  Asked({"compute_cost_matrix", "compute_cost_matrix_symmetric"}) =>
    /\ ~outcome.raised
    /\ DOMAIN outcome.value.node_index = Range(call.nodes)
    /\ \A s \in Range(call.nodes) : \A t \in Range(call.nodes) \ {s} :
         LET q == QueriedPair(s, t)
             r == EngineQuery(q[1], q[2])
         IN IF r.raised THEN Entry(s, t) = Inf
            ELSE Entry(s, t) = r.distance

C11_Witness ==
  /\ Asked({"compute_cost_matrix"})
  /\ ~outcome.raised
  /\ Cardinality(Range(call.nodes)) = 3
  /\ EngineQuery(call.nodes[1], call.nodes[2]).raised
  /\ \E s \in Range(call.nodes) : \E t \in Range(call.nodes) \ {s} :
       ~EngineQuery(s, t).raised

\* C12: compute_cost_matrix with an empty node list returns, without raising,
\* an empty 'matrix', an empty 'node_index' and 'nodes' = [], the same keys
\* ('matrix', 'node_index', 'nodes') as for a non-empty list.
C12_EmptyList ==
  (call.fn = "compute_cost_matrix" /\ call.nodes = <<>>) =>
    /\ ~outcome.raised
    /\ outcome.value.matrix = EmptyArray
    /\ outcome.value.node_index = EmptyDict
    /\ {"matrix", "node_index", "nodes"} \subseteq DOMAIN outcome.value
    /\ outcome.value.nodes = <<>>

\* solve_vrp returned routes of the nearest-neighbor algorithm
VrpReturned == vpc = "done" /\ vresult.raised = "" /\ vcall.algorithm = "nearest_neighbor"

\* the vehicle the i-th returned route was built for
BuiltFor(i) == vehicles[nn.built_for[i]]

\* the i-th returned route is marked feasible exactly when its deliveries
\* weigh no more than the capacity of the vehicle it was built for
FeasibleIffWithinCapacity(i) ==
  vresult.routes[i].is_feasible
    <=> (SumWeights(vresult.routes[i].deliveries) <= BuiltFor(i).capacity)

\* no two vehicles of the fleet have the same id
DistinctIds(fleet) ==
  \A j \in 1..Len(fleet) : \A k \in 1..Len(fleet) : fleet[j].id = fleet[k].id => j = k

\* C13 as stated: for any fleet and any deliveries, every route returned by
\* solve_vrp (nearest neighbor) is marked feasible if and only if the total
\* weight of its deliveries does not exceed the capacity of the vehicle the
\* route was built for.
C13_Original ==
  VrpReturned => \A i \in 1..Len(vresult.routes) : FeasibleIffWithinCapacity(i)

\* C13 amended: for any fleet whose vehicles have pairwise distinct ids and
\* any deliveries, every route returned by solve_vrp (nearest neighbor) is
\* marked feasible if and only if the total weight of its deliveries does not
\* exceed the capacity of the vehicle the route was built for; a route marked
\* feasible never exceeds that capacity.
C13_Amended ==
  (VrpReturned /\ DistinctIds(vehicles)) =>
     \A i \in 1..Len(vresult.routes) :
        /\ FeasibleIffWithinCapacity(i)
        /\ vresult.routes[i].is_feasible =>
             SumWeights(vresult.routes[i].deliveries) <= BuiltFor(i).capacity

\* two routes are returned for a fleet of distinct ids, one of them filling
\* its vehicle to the brim
C13_Witness ==
  /\ VrpReturned
  /\ DistinctIds(vehicles)
  /\ Len(vresult.routes) = 2
  /\ \E i \in 1..2 : SumWeights(vresult.routes[i].deliveries) = BuiltFor(i).capacity
  /\ \A i \in 1..2 : vresult.routes[i].is_feasible

\* a pass of the route loop of the vehicle at work appends a delivery
Appends ==
  /\ vpc = "route"
  /\ vpc' = "route"
  /\ Len(nn'.build.route_deliveries) = Len(nn.build.route_deliveries) + 1

\* the delivery d is, among those of pool that weigh at most residual and
\* whose delivery node a path leads to from current, the first in list order
\* of those whose delivery node is at the smallest shortest-path distance
FirstNearest(pool, d, current, residual) ==
  LET cands == {k \in 1..Len(pool) :
                  /\ pool[k].weight <= residual
                  /\ Connected(graph, current, pool[k].delivery_node)}
      far(k) == TrueDistance(graph, current, pool[k].delivery_node)
  IN \E k \in cands :
        /\ pool[k] = d
        /\ \A j \in cands : far(k) <= far(j) /\ (far(j) = far(k) => k <= j)

\* the deliveries that are on no route, kept or under construction
StillUnassigned ==
  LET Free(d) == d \notin Range(nn.build.route_deliveries)
  IN SelectSeq(nn.remaining_deliveries, Free)

\* one vehicle of capacity 100 is given a delivery of 60 and one of 50
OneVehicleTwoDeliveries ==
  /\ vcall.algorithm = "nearest_neighbor"
  /\ vcall.depot_location # None
  /\ Len(vehicles) = 1
  /\ vehicles[1].capacity = Whole(100)
  /\ Len(deliveries) = 2
  /\ {deliveries[1].weight, deliveries[2].weight} = {Whole(50), Whole(60)}

\* exactly one delivery is assigned, on a feasible route
OneAssigned ==
  /\ vresult.raised = ""
  /\ Len(vresult.routes) = 1
  /\ Len(vresult.routes[1].deliveries) = 1
  /\ vresult.routes[1].is_feasible

\* from the depot a path leads to the pickup of some delivery, from there to
\* its delivery node, and from the depot to its delivery node
SomeDeliveryRoutable ==
  \E k \in 1..Len(deliveries) :
     /\ Connected(graph, nn.depot_node, deliveries[k].delivery_node)
     /\ Connected(graph, nn.depot_node, deliveries[k].pickup_node)
     /\ Connected(graph, deliveries[k].pickup_node, deliveries[k].delivery_node)

\* C14 as stated: the delivery a selection step appends is the first nearest
\* one among the still-unassigned deliveries that fit the residual capacity
\* and whose delivery node is reachable, and it fits the residual capacity;
\* one vehicle of capacity 100 given deliveries of 60 and 50 ends with exactly
\* one of them assigned on a feasible route.
C14_Original ==
  [][/\ Appends =>
          LET d == nn'.build.route_deliveries[Len(nn'.build.route_deliveries)]
              residual == vehicles[nn.k].capacity - nn.build.current_load
          IN /\ d.weight <= residual
             /\ FirstNearest(StillUnassigned, d, nn.build.current_node, residual)
     /\ (vpc' = "done" /\ OneVehicleTwoDeliveries') => OneAssigned']_vars

\* C14 amended: the delivery a selection step appends is the first nearest
\* one among the deliveries still in the vehicle's candidate pool (unassigned
\* and not set aside for this vehicle because a leg to them could not be
\* routed) that fit the residual capacity and whose delivery node is
\* reachable, and it fits the residual capacity; one vehicle of capacity 100
\* given deliveries of 60 and 50 ends with at most one of them assigned, on a
\* feasible route, and with exactly one when some delivery can be routed.
C14_Amended ==
  [][/\ Appends =>
          LET d == nn'.build.route_deliveries[Len(nn'.build.route_deliveries)]
              residual == vehicles[nn.k].capacity - nn.build.current_load
          IN /\ d.weight <= residual
             /\ FirstNearest(nn.build.available_deliveries, d,
                             nn.build.current_node, residual)
     /\ (vpc' = "done" /\ OneVehicleTwoDeliveries') =>
          /\ vresult'.raised = ""
          /\ Len(vresult'.routes) <= 1
          /\ vresult'.routes # <<>> => OneAssigned'
          /\ SomeDeliveryRoutable' => OneAssigned']_vars

\* the route under construction holds one delivery, appended after a
\* delivery earlier in the list, fitting and no farther from the depot, was
\* set aside because a leg to it could not be routed
C14_Witness ==
  /\ vpc = "route"
  /\ Len(nn.build.route_deliveries) = 1
  /\ \E a \in Range(nn.remaining_deliveries) :
        LET b == nn.build.route_deliveries[1]
        IN /\ a \notin Range(nn.build.available_deliveries)
           /\ a # b
           /\ a.id < b.id
           /\ a.weight <= vehicles[nn.k].capacity
           /\ Connected(graph, nn.depot_node, a.delivery_node)
           /\ TrueDistance(graph, nn.depot_node, a.delivery_node)
                <= TrueDistance(graph, nn.depot_node, b.delivery_node)

\* the places (route, position) at which the delivery d lies on the routes rs
Places(rs, d) ==
  {p \in UNION {{<<i, j>> : j \in 1..Len(rs[i].deliveries)} : i \in 1..Len(rs)} :
     rs[p[1]].deliveries[p[2]] = d}

\* the deliveries of the list ds that lie on none of the routes rs, in order
OnNoRoute(ds, rs) ==
  LET Free(d) == Places(rs, d) = {}
  IN SelectSeq(ds, Free)

\* the nearest-neighbor solver is at work or has returned
Solving ==
  /\ vcall.algorithm = "nearest_neighbor"
  /\ vpc \in {"solve", "route", "validate", "done"}
  /\ nn # NoSolver

\* C15: NearestNeighborVRP.solve takes the vehicles one after the other in
\* input order; every input delivery lies on at most one kept route and at
\* most once on it; the candidates a vehicle starts from are all the
\* deliveries on no kept route so far, so a delivery an earlier vehicle did
\* not take, for lack of room or of a routable leg, is a candidate again; the
\* deliveries left after the last vehicle lie on no returned route.
C15_CarryOver ==
  [][/\ Solving' =>
          /\ \A d \in Range(deliveries') : Cardinality(Places(nn'.routes, d)) <= 1
          /\ \A i \in 1..Len(nn'.routes) :
                Range(nn'.routes[i].deliveries) \subseteq Range(deliveries')
          /\ nn'.remaining_deliveries = OnNoRoute(deliveries', nn'.routes)
     /\ (vpc = "call" /\ vpc' = "solve") => nn'.k = 1
     /\ (vpc = "solve" /\ vpc' = "route") =>
          /\ nn'.k = nn.k
          /\ nn'.build.available_deliveries = OnNoRoute(deliveries, nn.routes)
     /\ (vpc = "route" /\ vpc' = "solve") =>
          /\ nn'.k = nn.k + 1
          /\ \A i \in 1..Len(nn'.routes) :
                i > Len(nn.routes) => nn'.routes[i].vehicle_id = vehicles[nn.k].id
     /\ (vpc' = "done" /\ Solving') =>
          /\ Len(vresult'.routes) = Len(nn'.routes)
          /\ \A i \in 1..Len(nn'.routes) :
                vresult'.routes[i].deliveries = nn'.routes[i].deliveries
          /\ \A d \in Range(nn'.remaining_deliveries) :
                Places(vresult'.routes, d) = {}]_vars

\* two routes of one delivery each are returned although the first vehicle
\* had room for both deliveries: the one it set aside went to the second
C15_Witness ==
  /\ VrpReturned
  /\ Len(vresult.routes) = 2
  /\ Len(deliveries) = 2
  /\ vehicles[1].capacity >= SumWeights(deliveries)
  /\ \A i \in 1..2 : Len(vresult.routes[i].deliveries) = 1

\* the processed vehicles that were given at least one delivery, in input order
ServedVehicles ==
  LET Given(k) == nn.served[k] > 0
  IN SelectSeq([k \in 1..Len(nn.served) |-> k], Given)

\* C16: the list NearestNeighborVRP.solve builds holds exactly one route for
\* each processed vehicle that was given at least one delivery, in the
\* vehicles' input order, and none for a vehicle that was given none; every
\* route of the list, and every route solve_vrp returns, has deliveries.
C16_OneRoutePerServedVehicle ==
  Solving =>
    /\ Len(nn.served) = nn.k - 1
    /\ nn.built_for = ServedVehicles
    /\ \A i \in 1..Len(nn.routes) :
          /\ nn.routes[i].deliveries # <<>>
          /\ nn.routes[i].vehicle_id = vehicles[nn.built_for[i]].id
          /\ Len(nn.routes[i].deliveries) = nn.served[nn.built_for[i]]
    /\ vpc = "done" =>
          /\ Len(vresult.routes) = Len(nn.routes)
          /\ \A i \in 1..Len(nn.routes) :
                /\ vresult.routes[i].deliveries # <<>>
                /\ vresult.routes[i].vehicle_id = nn.routes[i].vehicle_id

\* the first vehicle was given nothing and the second a delivery: the one
\* route returned is the second vehicle's
C16_Witness ==
  /\ VrpReturned
  /\ nn.served = <<0, 1>>
  /\ Len(vresult.routes) = 1
  /\ nn.built_for = <<2>>

\* the call names an unknown algorithm, or lacks vehicles, deliveries or a depot
BadVrpInputs ==
  \/ vcall.algorithm \notin {"nearest_neighbor", "genetic_algorithm"}
  \/ vehicles = <<>>
  \/ deliveries = <<>>
  \/ vcall.depot_location = None

\* C17: solve_vrp raises ValueError when the algorithm key is unknown, when
\* the vehicle list or the delivery list is empty, or when no depot location
\* is given; no route is built then and every delivery keeps the pickup_node
\* and delivery_node it was passed with.
C17_InvalidInputs ==
  (vpc = "done" /\ BadVrpInputs) =>
     /\ vresult = RoutesRaised("ValueError")
     /\ nn = NoSolver
     /\ \A k \in 1..Len(deliveries) :
           deliveries[k].pickup_node = None /\ deliveries[k].delivery_node = None

\* the call had a known algorithm, a vehicle and a delivery but no depot
C17_Witness ==
  /\ vpc = "done"
  /\ vcall.algorithm = "nearest_neighbor"
  /\ vehicles # <<>>
  /\ deliveries # <<>>
  /\ vcall.depot_location = None
  /\ vresult.raised = "ValueError"

\* C18: solve_vrp called with 'genetic_algorithm' on non-empty vehicles and
\* deliveries and a depot completes without error and returns no routes.
C18_GeneticStub ==
  (vpc = "done" /\ vcall.algorithm = "genetic_algorithm"
     /\ validate_inputs(vehicles, deliveries, vcall.depot_location)) =>
       vresult = RoutesReturned(<<>>)

\* _solve_greedy is at work or has returned
Allocating == apc \in {"loop", "done"} /\ greedy # NoGreedy

\* the requests that were bound to a vehicle, and those set aside
AllocatedRequests == {manager.allocations[k].request : k \in 1..Len(manager.allocations)}

UnassignedRequests == Range(greedy.unassigned_requests)

\* request a comes strictly before request b: lower priority value, or the
\* same priority and an earlier creation time
Before(a, b) ==
  \/ a.priority < b.priority
  \/ a.priority = b.priority /\ a.created_at < b.created_at

\* C19: the greedy solve_allocation_problem processes the requests by
\* ascending client priority value and, at equal priority, by creation time,
\* whatever the order of the input list: no request is processed while one
\* that comes strictly before it is still waiting.  So of two requests of
\* the same weight the later one is never bound to a vehicle when the
\* earlier one was left unassigned.
C19_PriorityOrder ==
  Allocating =>
    /\ \A a \in Range(acall.requests) : \A b \in AllocatedRequests \cup UnassignedRequests :
          (a \notin AllocatedRequests \cup UnassignedRequests) => ~Before(a, b)
    /\ \A a \in UnassignedRequests : \A b \in AllocatedRequests :
          (a.weight = b.weight) => ~Before(a, b)

\* two requests of 60 for one vehicle of capacity 100, the more urgent one
\* second in the input list: it is the one bound to the vehicle
C19_Witness ==
  /\ apc = "done"
  /\ solution.raised = ""
  /\ Len(manager.vehicles) = 1
  /\ Len(acall.requests) = 2
  /\ Before(acall.requests[2], acall.requests[1])
  /\ acall.requests[1].weight = 60
  /\ acall.requests[2].weight = 60
  /\ AllocatedRequests = {acall.requests[2]}
  /\ UnassignedRequests = {acall.requests[1]}

\* the positions of the request r among the allocations and among the
\* unassigned requests of the solution
SolutionPlaces(r) ==
  {<<"allocations", k>> : k \in {j \in 1..Len(solution.value.allocations) :
                                   solution.value.allocations[j].request = r}}
    \cup
  {<<"unassigned_requests", k>> :
     k \in {j \in 1..Len(solution.value.unassigned_requests) :
              solution.value.unassigned_requests[j] = r}}

\* no registered vehicle has room for the request
NoRoomFor(request) ==
  \A k \in 1..Len(manager.vehicles) :
     ~(manager.vehicles[k].current_load + request.weight <= manager.vehicles[k].capacity)

\* C20: the greedy solve_allocation_problem returns a solution in which
\* every input request lies in exactly one of allocations and
\* unassigned_requests; a request is left unassigned if and only if, when it
\* is processed, no registered vehicle satisfies current_load + weight <=
\* capacity; an unassigned request changes no vehicle's load and adds no
\* allocation.
C20_AssignedOrUnassigned ==
  [][/\ (apc = "loop" /\ greedy'.i = greedy.i + 1) =>
          LET request == greedy.sorted_requests[greedy.i]
          IN /\ (greedy'.unassigned_requests # greedy.unassigned_requests)
                  <=> NoRoomFor(request)
             /\ (greedy'.unassigned_requests # greedy.unassigned_requests) =>
                  /\ greedy'.unassigned_requests = Append(greedy.unassigned_requests, request)
                  /\ manager' = manager
             /\ (greedy'.unassigned_requests = greedy.unassigned_requests) =>
                  /\ Len(manager'.allocations) = Len(manager.allocations) + 1
                  /\ manager'.allocations[Len(manager'.allocations)].request = request
     /\ (apc' = "done" /\ acall.algorithm = "greedy") =>
          /\ solution'.raised = ""
          /\ \A r \in Range(acall.requests) : Cardinality(SolutionPlaces(r)') = 1]_vars

\* a request that asked for a van was bound to a vehicle and another was
\* left unassigned
C20_Witness ==
  /\ apc = "done"
  /\ solution.raised = ""
  /\ Len(solution.value.allocations) = 1
  /\ Len(solution.value.unassigned_requests) = 1
  /\ solution.value.allocations[1].request.requested_vehicle_type = "van"
  /\ manager.cost_matrix.present

\* the last call was allocate_vehicle_greedy and it bound its request to a vehicle
Allocates ==
  /\ acall'.n = acall.n + 1
  /\ acall'.fn = "allocate_vehicle_greedy"
  /\ Len(manager'.allocations) = Len(manager.allocations) + 1

\* the position in the registry of the vehicle of the newest allocation
ChosenVehicle ==
  CHOOSE k \in 1..Len(manager.vehicles) :
    manager.vehicles[k].id = manager'.allocations[Len(manager'.allocations)].vehicle

\* the vehicles with room for the request, by position in the registry
WithRoom(request) ==
  {k \in 1..Len(manager.vehicles) :
     manager.vehicles[k].current_load + request.weight <= manager.vehicles[k].capacity}

\* d: the cost-matrix entry from the vehicle's node to the client's node when
\* a matrix was supplied (inf when a node is not in its index), else the
\* distance A* returns
StatedDistance(vehicle, request) ==
  IF manager.cost_matrix.present
    THEN IF vehicle.current_node \in DOMAIN manager.cost_matrix.node_index
              /\ request.node_id \in DOMAIN manager.cost_matrix.node_index
           THEN manager.cost_matrix.matrix.cells[
                  <<manager.cost_matrix.node_index[vehicle.current_node],
                    manager.cost_matrix.node_index[request.node_id]>>]
         ELSE Inf
  ELSE get_shortest_distance_a_star(graph, vehicle.current_node, request.node_id).distance

\* d + (4 - priority) * 0.1 * d in tenths of the distance unit: inf when d
\* is inf
StatedCost(vehicle, request) ==
  LET d == StatedDistance(vehicle, request)
  IN IF d = Inf THEN Inf ELSE (10 + (4 - request.priority)) * d

\* C21: allocate_vehicle_greedy binds the request to an available vehicle of
\* least cost d + (4 - priority) * 0.1 * d, d being the cost-matrix entry
\* (inf for a node missing from the index) or the A* distance; among
\* vehicles of equal cost the one registered first is chosen.
C21_CheapestVehicle ==
  [][Allocates =>
       LET request == acall'.request
           cost(k) == StatedCost(manager.vehicles[k], request)
       IN /\ ChosenVehicle \in WithRoom(request)
          /\ \A u \in WithRoom(request) :
                /\ cost(ChosenVehicle) <= cost(u)
                /\ cost(u) = cost(ChosenVehicle) => ChosenVehicle <= u]_vars

\* C22: a successful allocate_vehicle_greedy adds exactly the request's
\* weight to the load of the chosen vehicle, leaves the load of every other
\* vehicle as it was and records one new allocation under an id no
\* allocation had; every vehicle's load stays within its capacity.
C22_LoadAccounting ==
  [][/\ Allocates =>
          LET request == acall'.request
              newest == manager'.allocations[Len(manager'.allocations)]
          IN /\ \A k \in 1..Len(manager.vehicles) :
                   manager'.vehicles[k] =
                     IF k = ChosenVehicle
                       THEN [manager.vehicles[k] EXCEPT !.current_load = @ + request.weight]
                     ELSE manager.vehicles[k]
             /\ SubSeq(manager'.allocations, 1, Len(manager.allocations)) = manager.allocations
             /\ newest.request = request
             /\ \A j \in 1..Len(manager.allocations) : manager.allocations[j].id # newest.id
             /\ solution'.value.allocation = newest.id
     /\ \A k \in 1..Len(manager'.vehicles) :
           manager'.vehicles[k].current_load <= manager'.vehicles[k].capacity]_vars

\* a vehicle that carried 50 of its 100 was given a second load of 50
C22_Witness ==
  /\ acall.fn = "allocate_vehicle_greedy"
  /\ Len(manager.allocations) = 1
  /\ \E k \in 1..Len(manager.vehicles) :
        /\ registered[k].current_load = 50
        /\ manager.vehicles[k].current_load = 100
        /\ manager.vehicles[k].capacity = 100
        /\ manager.allocations[1].vehicle = manager.vehicles[k].id

RECURSIVE ActiveWeight(_, _)
\* the weights of the allocations of the vehicle id whose status is not
\* 'cancelled', summed
ActiveWeight(allocations, id) ==
  IF allocations = <<>> THEN 0
  ELSE LET a == allocations[Len(allocations)]
       IN ActiveWeight(SubSeq(allocations, 1, Len(allocations) - 1), id)
            + (IF a.vehicle = id /\ a.status # "cancelled" THEN a.request.weight ELSE 0)

\* the call just made was cancel_allocation or update_allocation_status with
\* an id no allocation has, or update_allocation_status with an invalid status
RejectedCall ==
  /\ acall'.n = acall.n + 1
  /\ \/ /\ acall'.fn \in {"cancel_allocation", "update_allocation_status"}
        /\ acall'.allocation_id \notin 1..Len(manager.allocations)
     \/ /\ acall'.fn = "update_allocation_status"
        /\ acall'.new_status \notin valid_statuses

\* C23: after any sequence of allocate_vehicle_greedy, cancel_allocation and
\* update_allocation_status calls every vehicle's current_load is its
\* initial load plus the weights of its allocations that are not cancelled,
\* and is not negative; a cancel or an update with an unknown id, or an
\* update with an invalid status, returns False and changes nothing.
C23_CancelFreesVehicle ==
  [][/\ \A k \in 1..Len(manager'.vehicles) :
           /\ manager'.vehicles[k].current_load =
                registered[k].current_load
                  + ActiveWeight(manager'.allocations, manager'.vehicles[k].id)
           /\ manager'.vehicles[k].current_load >= 0
     /\ RejectedCall =>
           /\ solution'.value.result = FALSE
           /\ manager' = manager]_vars

\* ---------------------------------------------------------------- C24
\* a step that is a call of get
Gets ==
  /\ fila_result'.op = "get"
  /\ fila_count'.put = fila_count.put

\* how many times the tuple x is in the list
Count(seq, x) == Cardinality({i \in 1..Len(seq) : seq[i] = x})

\* C24: after any sequence of put and get on a filaPrioridade, get on a
\* non-empty queue returns, and removes one occurrence of, an item whose
\* priority is the smallest in the queue; get on an empty queue raises
\* IndexError and leaves the queue empty; is_empty is true exactly when as
\* many items were removed as were put.
C24_SmallestFirst ==
  [][/\ Gets /\ elements # <<>> =>
          /\ fila_result'.raised = ""
          /\ \E i \in 1..Len(elements) :
                /\ \A j \in 1..Len(elements) : elements[i][1] <= elements[j][1]
                /\ fila_result'.item = elements[i][2]
                /\ \A x \in Range(elements) :
                      Count(elements', x) =
                        Count(elements, x) - (IF x = elements[i] THEN 1 ELSE 0)
          /\ Len(elements') = Len(elements) - 1
     /\ Gets /\ elements = <<>> =>
          /\ fila_result'.raised = "IndexError"
          /\ elements' = <<>>
     /\ fila_is_empty(elements') <=> fila_count'.put = fila_count'.got]_vars

\* a get has returned from a queue that held three items, two of them with
\* the same priority, and two stay
C24_Witness ==
  /\ fila_result.op = "get"
  /\ fila_result.raised = ""
  /\ fila_count.got >= 1
  /\ Len(elements) = 2
  /\ elements[1][1] = elements[2][1]

\* ---------------------------------------------------------------- C25
\* get_all_shortest_distances(graph, start) has returned for a node of the graph
AllDistancesReturned == all_distances.returned /\ has_node(graph, start)

\* C25: for every graph and every node s of it, get_all_shortest_distances
\* maps every node t to the distance get_shortest_distance(G, s, t) returns.
C25_SameAsPointToPoint ==
  AllDistancesReturned =>
    /\ DOMAIN all_distances.value = graph.nodes
    /\ \A t \in graph.nodes :
          all_distances.value[t] = get_shortest_distance(graph, start, t).distance

\* ---------------------------------------------------------------- C26
\* the node carries one of the coordinate key pairs
HasCoordinates(G, n) ==
  \/ {"y", "x"} \subseteq DOMAIN G.node_data[n]
  \/ {"lat", "lon"} \subseteq DOMAIN G.node_data[n]
  \/ {"latitude", "longitude"} \subseteq DOMAIN G.node_data[n]

\* the heuristic value find_path_a_star added for node n is zero
HeuristicIsZero(n) == astar.f_score[n] = astar.g_score[n]

\* C26: calculate_heuristic(G, current, goal) is 0 whenever current or goal
\* carries no coordinates, so every f score find_path_a_star records for
\* such a pair equals the g score, and A* on a graph with coordinate-less
\* nodes returns the Dijkstra distance without raising.
C26_HeuristicFallback ==
  /\ pc = "astar_loop" =>
       \A n \in graph.nodes :
          (/\ astar.g_score[n] # Inf
           /\ ~HasCoordinates(graph, n) \/ ~HasCoordinates(graph, end)) =>
            HeuristicIsZero(n)
  /\ (AStarReturned /\ \E n \in graph.nodes : ~HasCoordinates(graph, n)) =>
       /\ ~astar_result.raised
       /\ astar_result.distance = dijkstra_result.distance

\* ---------------------------------------------------------------- C27
\* every node that was given a predecessor stands at the predecessor's
\* distance plus the stated cost of the hop between them
RelaxedByRule(distances, predecessors) ==
  \A v \in graph.nodes :
     predecessors[v] # None =>
       /\ RefHopCost(graph, predecessors[v], v) # Inf
       /\ distances[v] =
            Add(distances[predecessors[v]], RefHopCost(graph, predecessors[v], v))

\* the simple digraph whose single edge 0->1 has only a weight
WeightOnlyDiGraph ==
  /\ ~graph.multi
  /\ \E w \in Weights : graph.edges = {[u |-> 0, v |-> 1, data |-> [weight |-> w]]}

\* C27: find_path_dijkstra and find_path_a_star relax u->v with the smallest
\* 'length' (else 'weight') among the parallel edges, skip a multigraph edge
\* with neither attribute and cost it 1.0 in a simple digraph; A* applies the
\* rule on both kinds of graph without raising, and on a simple digraph
\* whose single edge 0->1 has only weight w both return ([0, 1], w).
C27_HopCostRule ==
  /\ pc = "dijkstra_loop" => RelaxedByRule(dj.distances, dj.predecessors)
  /\ pc = "astar_loop" =>
       /\ ~astar.raised
       /\ RelaxedByRule(astar.g_score, astar.predecessors)
  /\ (AStarReturned /\ WeightOnlyDiGraph /\ start = 0 /\ end = 1) =>
       LET w == TrueDistance(graph, 0, 1)
       IN /\ SameAnswer(dijkstra_result, <<0, 1>>, w)
          /\ SameAnswer(astar_result, <<0, 1>>, w)

\* ---------------------------------------------------------------- C28
RECURSIVE LegsFrom(_, _, _)
\* the shortest distances node -> pickup -> delivery of the deliveries ds
\* served in order from node, each leg counted in multiples of unit
LegsFrom(node, ds, unit) ==
  IF ds = <<>> THEN 0
  ELSE (TrueDistance(graph, node, ds[1].pickup_node) \div unit)
       + (TrueDistance(graph, ds[1].pickup_node, ds[1].delivery_node) \div unit)
       + LegsFrom(ds[1].delivery_node, Tail(ds), unit)

\* the shortest distance from the last delivery node back to the depot, 0
\* when that node is the depot or no path leads back
ReturnLeg(depot, ds, unit) ==
  LET last == ds[Len(ds)].delivery_node
  IN IF last # depot /\ Connected(graph, last, depot)
       THEN TrueDistance(graph, last, depot) \div unit
     ELSE 0

\* every route built so far, and every route returned, has its deliveries
\* and the stated total; solve_vrp has raised nothing
TotalsAsStated(unit) ==
  (vpc \in {"solve", "route", "validate", "done"} /\ nn # NoSolver) =>
    /\ vresult.raised = ""
    /\ \A i \in 1..Len(nn.routes) :
          /\ nn.routes[i].deliveries # <<>>
          /\ nn.routes[i].total_distance =
               LegsFrom(nn.depot_node, nn.routes[i].deliveries, unit)
                 + ReturnLeg(nn.depot_node, nn.routes[i].deliveries, unit)
    /\ vpc = "done" =>
          /\ Len(vresult.routes) = Len(nn.routes)
          /\ \A i \in 1..Len(nn.routes) :
                /\ vresult.routes[i].deliveries = nn.routes[i].deliveries
                /\ vresult.routes[i].total_distance = nn.routes[i].total_distance

\* C28 as stated: the total_distance of a route is the sum of the shortest
\* distances of its legs (to each pickup, from pickup to delivery, and back
\* to the depot when a path leads there), in the unit of the edge lengths.
C28_Original == TotalsAsStated(1)

\* C28 amended: the total_distance of a route is the sum over its legs of
\* the shortest distance divided by 1000 (edge lengths in metres, total in
\* kilometres); without a path back to the depot the return leg is left out,
\* the route and its deliveries are kept and nothing is raised.
C28_Amended == TotalsAsStated(1000)

\* solve_vrp has returned a route of two deliveries from whose last node no
\* path leads back to the depot
C28_Witness ==
  /\ vpc = "done"
  /\ \E i \in 1..Len(vresult.routes) :
        /\ Len(vresult.routes[i].deliveries) = 2
        /\ vresult.routes[i].total_distance > 0
        /\ ~Connected(graph, vresult.routes[i].deliveries[2].delivery_node, nn.depot_node)

\* ---------------------------------------------------------------- C29
\* a pass of the while loop of find_path_dijkstra (of find_path_a_star)
DijkstraPass == pc = "dijkstra_loop" /\ pc' = "dijkstra_loop"

AStarPass == pc = "astar_loop" /\ pc' = "astar_loop"

\* the visited nodes keep their distance and predecessor over the pass
Frozen(visited, d, p, dAfter, pAfter) ==
  \A n \in visited : dAfter[n] = d[n] /\ pAfter[n] = p[n]

\* the entry taken from the heap is of a node visited before
Repops(st) == HeapTop(st.queue)[2] \in st.visited

\* the pass has done nothing but take the top entry from the queue
OnlyPopped(st, stAfter) ==
  stAfter = [st EXCEPT !.queue = @ \ {HeapTop(st.queue)}]

\* C29: in find_path_dijkstra and find_path_a_star a visited node keeps its
\* distance (g) and predecessor, popping it again changes nothing, no pass
\* follows the one that popped the destination, and every node Dijkstra has
\* visited stands at its true shortest distance from start.
C29_VisitedIsFinal ==
  [][/\ DijkstraPass =>
          /\ end \notin dj.visited
          /\ dj.visited \subseteq dj'.visited
          /\ Frozen(dj.visited, dj.distances, dj.predecessors,
                    dj'.distances, dj'.predecessors)
          /\ Repops(dj) => OnlyPopped(dj, dj')
          /\ \A n \in dj'.visited : dj'.distances[n] = TrueDistance(graph, start, n)
     /\ AStarPass =>
          /\ end \notin astar.visited
          /\ astar.visited \subseteq astar'.visited
          /\ Frozen(astar.visited, astar.g_score, astar.predecessors,
                    astar'.g_score, astar'.predecessors)
          /\ Repops(astar) => OnlyPopped(astar, astar')]_vars

\* find_path_dijkstra has visited three nodes and is about to pop a stale
\* entry of one of them, the destination still unvisited
C29_Witness ==
  /\ pc = "dijkstra_loop"
  /\ Cardinality(dj.visited) >= 3
  /\ dj.queue # {}
  /\ Repops(dj)
  /\ end \notin dj.visited

\* ---------------------------------------------------------------- C30
\* the route loop of the vehicle at work is to go through another pass
RoutePassDue == vpc = "route" /\ BuildRunning(graph, vehicles[nn.k], nn.build)

\* what the pass that is due makes of the locals of the route builder
AfterPass == BuildIteration(graph, vehicles[nn.k], nn.build)

\* the pass that is due appends the selected delivery or takes it from the
\* vehicle's candidate pool
PassProgresses ==
  Len(AfterPass.available_deliveries) = Len(nn.build.available_deliveries) - 1

\* C30: route construction terminates for every finite delivery list,
\* capacity and graph, because every pass of the route loop appends the
\* selected delivery or removes it from the candidate pool, which so
\* shrinks with every pass, and solve looks at each vehicle at most once.
C30_Terminates ==
  /\ RoutePassDue => PassProgresses
  /\ vpc \in {"solve", "route"} => nn.k <= Len(vehicles) + 1

====
